---- MODULE Spec2Model ----
(***************************************************************************)
(* Verification model of OldRazeJedy/steam-dashboard.                      *)
(*                                                                         *)
(* Part 1: the reviewer aggregation engine                                 *)
(*   aggregateReviewerData   src/components/ui/navbar.tsx, lines 156-262   *)
(*   parseUserReviews        src/unnamed/part_009, lines 447-513           *)
(*   parseReviewPage         src/unnamed/part_009, lines 330-438           *)
(* Both files also hold an older copy of these functions; the model        *)
(* follows the copies named here.                                          *)
(*                                                                         *)
(* Part 2: the content retrieval gateway                                   *)
(*   GET                     src/app/api/steam/proxy/route.ts              *)
(* Part 3: the upstream client                                             *)
(*   SteamClient             src/lib/steam/client.ts                       *)
(* Part 4: the review-listing and player-profile routes                    *)
(*   GET                     src/app/api/steam/reviews/route.ts            *)
(*   GET                     src/app/api/steam/players/route.ts            *)
(* Part 5: the review hook                                                 *)
(*   useSteamReviews         src/lib/hooks/useSteamReviews.ts              *)
(*                                                                         *)
(* Each part has its own specification (Spec, ProxySpec, ClientSpec,       *)
(* EnrichSpec, ReviewsSpec, PlayersSpec, HookSpec); the variables of the   *)
(* other parts stay in their start state.  CoreSpec runs any one of the    *)
(* parts that fetch and ProfilesSpec the client or the players route.      *)
(* RendersSpec follows the hook over several renders with overlapping      *)
(* fetchReviews calls, and ParserSpec applies the pagination part of       *)
(* parseReviewPage to the markup of one page.                              *)
(*                                                                         *)
(* JavaScript runs each continuation to completion; the only suspension    *)
(* points are the awaits on fetch.  One action below is one such           *)
(* continuation: the synchronous prefix of the call, one invocation of the *)
(* map callback up to its first await, the arrival of one feed-page        *)
(* response, the resumption of one reviewer task after parseUserReviews    *)
(* settled, and the resumption of the caller after Promise.allSettled.     *)
(***************************************************************************)
EXTENDS Integers, Sequences, FiniteSets, TLC

VARIABLES
    initialReviews,   \* argument: sequence of seed reviews
    maxPagesPerUser,  \* argument
    targetAppId,      \* argument (Undef when not supplied)
    feed,             \* upstream content: profile URL -> feed pages
    pc,               \* position of the aggregateReviewerData call
    authorList,       \* Array.from(uniqueAuthors.values())
    nextAuthor,       \* index of the next element authorList.map visits
    reviewers,        \* analysisData.reviewers
    keyOrder,         \* insertion order of the keys of analysisData.reviewers
    processedCount,   \* let processedCount
    progress,         \* the calls onProgress has received, in order
    reported,         \* per reviewer task: how many onProgress calls it made
    task,             \* per reviewer: state of the promise of the map callback
    parse,            \* per reviewer: the parseUserReviews call and its promise
    page,             \* per reviewer and page number: state of the feed request
    fetchCount,       \* per reviewer and page number: requests issued
    fetchUrl,         \* per reviewer: the profile URL its requests were built from
    lateResponses     \* feed responses handled after the call had returned

\* the content retrieval gateway (route.ts)
VARIABLES
    contentCache,     \* const contentCache = new Map<string, CacheEntry>()
    now,              \* Date.now()
    handler,          \* per request: the position and locals of its GET invocation
    response          \* per request: the Response GET returned

\* the upstream client (client.ts)
VARIABLES
    steamIds,         \* argument of getPlayerSummaries
    clientPc,         \* position of the getPlayerSummaries call
    chunks,           \* const chunks
    chunkIndex,       \* the element of chunks the for-of loop is at
    allResults,       \* const allResults
    requests,         \* the steamids parameters of the requests issued, in order
    received,         \* the player lists of the responses received, in order
    returned          \* the value the call resolved to

\* getReviewsWithPlayerData (client.ts)
VARIABLES
    enrichPc,         \* position of the getReviewsWithPlayerData call
    gameReviews,      \* the getGameReviews call: its promise, the body it read
    enriched          \* the value getReviewsWithPlayerData resolved to

\* the review-listing route (reviews/route.ts)
VARIABLES
    reviewCache,      \* const reviewCache = new Map()
    reviewHandler,    \* per request: the position and locals of its GET invocation
    reviewResponse    \* per request: the NextResponse GET returned

\* the player-profile route (players/route.ts)
VARIABLES
    playerCache,      \* const playerCache = new Map()
    apiKey,           \* process.env.STEAM_API_KEY
    playerHandler,    \* per request: the position and locals of its GET invocation
    playerResponse    \* per request: the NextResponse GET returned

\* the review hook (useSteamReviews.ts)
VARIABLES
    hookAppId,        \* argument of useSteamReviews
    hookOptions,      \* argument of useSteamReviews
    hookPc,           \* position of the fetchReviews call
    collected,        \* let allReviews
    hookCursor,       \* let cursor
    loopIndex,        \* let i of the page loop
    pageRequests,     \* the options of the enriched-page requests issued, in order
    hookReviews,      \* state: reviews
    hookSummary,      \* state: summary
    hookLoading,      \* state: loading
    hookError         \* state: error

\* the review hook over several renders (useSteamReviews.ts)
VARIABLE calls        \* the fetchReviews calls the effect started, each with its locals

\* parseReviewPage on the markup of one page (part_009)
VARIABLES
    pageHtml,         \* argument html: the pagination markup of the page
    pagination        \* const pagination, as returned

VARIABLE scenario     \* the entry point a run exercises

aggVars == <<initialReviews, maxPagesPerUser, targetAppId, feed, pc, authorList,
             nextAuthor, reviewers, keyOrder, processedCount, progress, reported,
             task, parse, page, fetchCount, fetchUrl, lateResponses>>

proxyVars == <<contentCache, now, handler, response>>

clientVars == <<steamIds, clientPc, chunks, chunkIndex, allResults, requests, received,
                returned>>

enrichVars == <<enrichPc, gameReviews, enriched>>

reviewsVars == <<reviewCache, reviewHandler, reviewResponse>>

playersVars == <<playerCache, apiKey, playerHandler, playerResponse>>

hookVars == <<hookAppId, hookOptions, hookPc, collected, hookCursor, loopIndex, pageRequests,
              hookReviews, hookSummary, hookLoading, hookError>>

parserVars == <<pageHtml, pagination>>

vars == <<aggVars, proxyVars, clientVars, enrichVars, reviewsVars, playersVars, hookVars,
          scenario, calls, parserVars>>

newParts == <<enrichVars, reviewsVars, playersVars, hookVars, scenario, calls, parserVars>>
outsideAggregator == <<proxyVars, clientVars, newParts>>
outsideProxy == <<aggVars, clientVars, newParts>>
outsideClient == <<aggVars, proxyVars, newParts>>
\* getReviewsWithPlayerData calls getPlayerSummaries and so writes clientVars
outsideEnrich == <<aggVars, proxyVars, reviewsVars, playersVars, hookVars, scenario, calls, parserVars>>
\* the routes read the clock of the gateway
outsideReviews == <<aggVars, contentCache, handler, response, clientVars, enrichVars,
                    playersVars, hookVars, scenario, calls, parserVars>>
outsidePlayers == <<aggVars, contentCache, handler, response, clientVars, enrichVars,
                    reviewsVars, hookVars, scenario, calls, parserVars>>
outsideHook == <<aggVars, proxyVars, clientVars, enrichVars, reviewsVars, playersVars,
                 scenario, calls, parserVars>>

\* the hook over several renders writes the published state and calls
outsideRenders == <<aggVars, proxyVars, clientVars, enrichVars, reviewsVars, playersVars,
                   scenario, parserVars>>

outsideParser == <<aggVars, proxyVars, clientVars, enrichVars, reviewsVars, playersVars,
                  hookVars, scenario, calls>>

inputs == <<initialReviews, maxPagesPerUser, targetAppId, feed>>

-----------------------------------------------------------------------------
(* Bounds of the model *)

MaxSeeds == 3          \* longest seed list
MaxTotalPages == 3     \* largest page count a feed reports
MaxEntries == 2        \* most review boxes in one generated feed

-----------------------------------------------------------------------------
(* Values *)

Undef == "undefined"

Authors == {"a1", "a2", "a3"}
FeedUrls == {"u1", "u2"}
ProfileUrls == {Undef, "", "#"} \cup FeedUrls
GameIds == {"", "g1", "g2"}
Pages == 1..MaxTotalPages

Min(a, b) == IF a <= b THEN a ELSE b
Max(a, b) == IF a >= b THEN a ELSE b

EmptyMap == <<>>

\* JavaScript truthiness of an optional string
Truthy(s) == s # Undef /\ s # ""

-----------------------------------------------------------------------------
(* Upstream feed pages.  A page body is the list of review boxes of the     *)
(* document; parseReviewPage turns every box into one ParsedUserReview.     *)
(* The permalink identifies the box: page number and position.              *)

Box(g, r) == [gameId |-> g, recommendationType |-> r]

BoxKinds == {Box("g1", "positive"), Box("g2", "positive"), Box("g1", "negative")}

RECURSIVE SeqsUpTo(_, _)
SeqsUpTo(S, n) ==
    IF n = 0 THEN {<<>>}
    ELSE LET shorter == SeqsUpTo(S, n - 1)
         IN  shorter \cup {Append(s, x) : s \in {t \in shorter : Len(t) = n - 1}, x \in S}

\* parseReviewPage: the review boxes in document order, and the pagination
parseReviewPage(f, p) ==
    [reviews |-> [i \in DOMAIN f.pages[p] |->
                    [gameId |-> f.pages[p][i].gameId,
                     recommendationType |-> f.pages[p][i].recommendationType,
                     reviewUrl |-> <<p, i>>]],
     pagination |-> [totalPages |-> f.totalPages]]

-----------------------------------------------------------------------------
(* aggregateReviewerData: the pure parts *)

\* mutant: the filter keeps every review
AllReviews(rs) == rs

\* initialReviews.filter((review) => review.voted_up)
PositiveReviews(rs) == SelectSeq(rs, LAMBDA r : r.voted_up)

\* mutant: uniqueAuthors.set without the has() test, the last stub wins
SetAlways(acc, author) ==
    IF \E i \in DOMAIN acc : acc[i].steamid = author.steamid
    THEN [i \in DOMAIN acc |-> IF acc[i].steamid = author.steamid THEN author ELSE acc[i]]
    ELSE Append(acc, author)

\* if (!uniqueAuthors.has(id)) uniqueAuthors.set(id, author): a Map keeps the
\* insertion order of its keys, here a sequence of author stubs
SetIfAbsent(acc, author) ==
    IF \E i \in DOMAIN acc : acc[i].steamid = author.steamid
    THEN acc
    ELSE Append(acc, author)

RECURSIVE CollectAuthors(_, _, _)
CollectAuthors(rs, i, acc) ==
    IF i > Len(rs) THEN acc
    ELSE CollectAuthors(rs, i + 1, SetIfAbsent(acc, rs[i].author))

\* mutant: the authors are collected from initialReviews, not from the filtered list
UniqueAuthorsOfAllReviews(rs) == CollectAuthors(rs, 1, <<>>)

\* mutant: the authors are listed last seen first
UniqueAuthorListReversed(rs) ==
    LET list == CollectAuthors(PositiveReviews(rs), 1, <<>>)
    IN  [i \in DOMAIN list |-> list[Len(list) + 1 - i]]

\* mutant: an author is listed once per positive review
UniqueAuthorListRepeated(rs) ==
    LET positive == PositiveReviews(rs)
    IN  [i \in DOMAIN positive |-> positive[i].author]

\* Array.from(uniqueAuthors.values()) over the filtered reviews
UniqueAuthorList(rs) == CollectAuthors(PositiveReviews(rs), 1, <<>>)

\* mutant: every aggregate is stored under one shared key
AggregateKeyShared(author) == "a1"

\* mutant: aggregates keyed by profile URL
AggregateKeyByUrl(author) == author.profileurl

\* the key under which a reviewer's aggregate is stored
AggregateKey(author) == author.steamid

\* analysisData.reviewers[steamId] = { profile, reviews: {}, totalPages: 0 }
NewAggregate(author) ==
    [profile |-> [steamId |-> author.steamid, profileurl |-> author.profileurl],
     reviews |-> EmptyMap,
     totalPages |-> 0,
     error |-> Undef]

\* mutant: only the "#" placeholder is tested
NoProfileUrlHashOnly(profileUrl) == profileUrl = "#"

\* !profileUrl || profileUrl === "#"
NoProfileUrl(profileUrl) == ~Truthy(profileUrl) \/ profileUrl = "#"

\* the entry written into the reviewer's map for one parsed review
StoredReview(parsedReview) ==
    [gameId |-> parsedReview.gameId,
     recommendation |-> parsedReview.recommendationType,
     reviewUrl |-> parsedReview.reviewUrl]

\* mutant: the analysed title is not excluded
KeepReviewIgnoringTarget(parsedReview, target) ==
    /\ Truthy(parsedReview.gameId)
    /\ parsedReview.recommendationType = "positive"

\* the two tests a parsed review passes before it is stored
KeepReview(parsedReview, target) ==
    /\ ~(Truthy(target) /\ parsedReview.gameId = target)
    /\ Truthy(parsedReview.gameId)
    /\ parsedReview.recommendationType = "positive"

\* obj[k] = v
Put(map, k, v) == [x \in DOMAIN map \cup {k} |-> IF x = k THEN v ELSE map[x]]

\* mutant: an entry already stored for the title is kept
StoreReviewFirstWins(map, parsedReview, target) ==
    IF KeepReview(parsedReview, target) /\ parsedReview.gameId \notin DOMAIN map
    THEN Put(map, parsedReview.gameId, StoredReview(parsedReview))
    ELSE map

\* one iteration of for (const parsedReview of userReviews)
StoreReview(map, parsedReview, target) ==
    IF KeepReview(parsedReview, target)
    THEN Put(map, parsedReview.gameId, StoredReview(parsedReview))
    ELSE map

RECURSIVE StoreReviews(_, _, _, _)
StoreReviews(map, userReviews, i, target) ==
    IF i > Len(userReviews) THEN map
    ELSE StoreReviews(StoreReview(map, userReviews[i], target), userReviews, i + 1, target)

\* mutant: the message of the thrown Error is dropped
ErrorMessageGeneric(err) == "Unknown parsing error"

\* err instanceof Error ? err.message : "Unknown parsing error"
ErrorMessage(err) == IF err.isError THEN err.message ELSE "Unknown parsing error"

\* mutant: the catch block only logs
RecordErrorSwallowed(agg, err) == agg

\* the catch block: the message is recorded on the reviewer's aggregate
RecordError(agg, err) == [agg EXCEPT !.error = ErrorMessage(err)]

\* the try block after the await: totalPages, then the loop over userReviews
RecordReviews(agg, result, target) ==
    [agg EXCEPT !.totalPages = result.totalPages,
                !.reviews = StoreReviews(agg.reviews, result.reviews, 1, target)]

\* mutant: onProgress is called before the counter is incremented
OnProgressArgsStale(processed, list) == <<processed - 1, Len(list)>>

\* onProgress?.(processedCount, authorList.length)
OnProgressArgs(processed, list) == <<processed, Len(list)>>

\* mutant: Promise.race, the first task to settle resumes the caller
RaceSettled(states) ==
    states = <<>> \/ \E i \in DOMAIN states : states[i] \in {"fulfilled", "rejected"}

\* Promise.allSettled settles once every task has settled, whatever its outcome
AllSettled(states) == \A i \in DOMAIN states : states[i] \in {"fulfilled", "rejected"}

-----------------------------------------------------------------------------
(* parseUserReviews: the pure parts *)

\* mutant: the maxPages ceiling is ignored
PagesToFetchUncapped(totalPages, maxPages) == totalPages

\* Math.min(totalPages, maxPages)
PagesToFetch(totalPages, maxPages) == Min(totalPages, maxPages)

\* a request that fails ends in a thrown Error: the proxy answers every
\* failure of the upstream with a non-2xx status, which the response.ok test
\* turns into this Error (a rejected fetch is caught by the same handlers)
Thrown(p) ==
    [isError |-> TRUE,
     message |-> IF p = 1 THEN "Failed to fetch reviews: 502 Bad Gateway"
                 ELSE "Failed to fetch page " \o ToString(p) \o ": 502 Bad Gateway"]

NoError == [isError |-> FALSE, message |-> ""]

\* mutant: the catch block replaces every error
RethrowUnknown(error) ==
    [isError |-> TRUE, message |-> "Unknown error parsing user reviews"]

\* the catch block of parseUserReviews rethrows an Error
Rethrow(error) ==
    IF error.isError THEN error
    ELSE [isError |-> TRUE, message |-> "Unknown error parsing user reviews"]

\* mutant: Promise.any, the first page to fulfil settles the call
AnyFulfilled(states, p, pagesToFetch) == TRUE

\* Promise.all(pagePromises) fulfils when page p fulfils and every other page
\* promise already has
AllFulfilled(states, p, pagesToFetch) ==
    \A q \in 2..pagesToFetch : q = p \/ states[q] = "ok"

\* for (const reviews of additionalReviews) allReviews = [...allReviews, ...reviews]
RECURSIVE ConcatPages(_, _, _, _)
ConcatPages(allReviews, f, p, last) ==
    IF p > last THEN allReviews
    ELSE ConcatPages(allReviews \o parseReviewPage(f, p).reviews, f, p + 1, last)

NoParse == [state |-> "none", reviews |-> <<>>, totalPages |-> 0,
            pagesToFetch |-> 0, error |-> NoError]

-----------------------------------------------------------------------------
(* The content retrieval gateway: the pure parts *)

FETCH_TIMEOUT_MS == 5000
CACHE_TTL_MS == 60 * 1000

MaxRequests == 2       \* GET invocations in one run
MaxTicks == 4          \* how often the clock advances

\* the clock is read at multiples of TickMs: the cache lifetime is three ticks,
\* and a fetch that is still pending after a tick is past its timeout
TickMs == 4 * FETCH_TIMEOUT_MS

Requests == 1..MaxRequests

TrustedPrefix == "https://steamcommunity.com/"

TrustedUrls ==
    {"https://steamcommunity.com/id/a/recommended/",
     "https://steamcommunity.com/id/b/recommended/"}

\* searchParams.get("url"): null (Undef) when the parameter is missing
TargetUrls ==
    {Undef, "", "https://evil.example/x", "https://steamcommunity.com.evil.example/x"}
        \cup TrustedUrls

Bodies == {"<html>1</html>", "<html>2</html>"}

UpstreamStatuses == {200, 404, 504}

\* mutant: only the scheme is compared
StartsWithScheme(str, prefix) == Len(str) >= 6 /\ SubSeq(str, 1, 6) = SubSeq(prefix, 1, 6)

\* String.prototype.startsWith
StartsWith(str, prefix) ==
    Len(str) >= Len(prefix) /\ SubSeq(str, 1, Len(prefix)) = prefix

\* response.ok
Ok(status) == status \in 200..299

\* mutant: an entry exactly as old as the lifetime is still served
FreshInclusive(entry, t) == t - entry.timestamp <= CACHE_TTL_MS

\* mutant: the comparison is the wrong way round
FreshReversed(entry, t) == t - entry.timestamp > CACHE_TTL_MS

\* Date.now() - cachedEntry.timestamp < CACHE_TTL_MS
Fresh(entry, t) == t - entry.timestamp < CACHE_TTL_MS

\* mutant: an entry already stored under the key is kept
CacheSetKeepFirst(cache, url, content, t) ==
    IF url \in DOMAIN cache THEN cache
    ELSE Put(cache, url, [content |-> content, timestamp |-> t])

\* contentCache.set(targetUrl, { content, timestamp: Date.now() })
CacheSet(cache, url, content, t) == Put(cache, url, [content |-> content, timestamp |-> t])

\* contentCache.delete(targetUrl)
CacheDelete(cache, url) == [k \in DOMAIN cache \ {url} |-> cache[k]]

NoResponse == [status |-> 0, xcache |-> Undef, body |-> Undef, error |-> Undef]

\* NextResponse.json({ error }, { status })
JsonError(status, error) ==
    [status |-> status, xcache |-> Undef, body |-> Undef, error |-> error]

\* new Response(content, { headers: { "X-Cache": xcache } }): status 200
Html(content, xcache) ==
    [status |-> 200, xcache |-> xcache, body |-> content, error |-> Undef]

\* mutant: the timeout is not told apart from other failures
IsAbortErrorNever(name) == FALSE

\* fetchError instanceof Error && fetchError.name === "AbortError"
IsAbortError(name) == name = "AbortError"

\* the inner catch block, and the outer one for what it rethrows
FetchFailure(name) ==
    IF IsAbortError(name)
    THEN JsonError(504, "Request to Steam timed out")
    ELSE JsonError(500, "Failed to fetch content: fetch failed")

\* the answer to an upstream response that is not ok
UpstreamError(status) ==
    JsonError(status, "Steam page responded with " \o ToString(status))

NoUpstream == [name |-> "none", status |-> 0]

IdleHandler ==
    [pc |-> "idle", targetUrl |-> Undef, at |-> 0, calledOut |-> FALSE,
     upstream |-> NoUpstream, html |-> Undef, wrote |-> -1]

\* the module has been loaded: an empty cache, no request yet
ProxyStart ==
    /\ contentCache = EmptyMap
    /\ now = 0
    /\ handler = [r \in Requests |-> IdleHandler]
    /\ response = [r \in Requests |-> NoResponse]

-----------------------------------------------------------------------------
(* The upstream client: the pure parts *)

ChunkSize == 100

MaxIds == 205          \* longest id list

\* mutant: the slice takes one element too many
SliceInclusive(array, from, to) == SubSeq(array, from + 1, Min(to + 1, Len(array)))

\* array.slice(from, to) with 0 <= from <= to: the elements from..to-1, 0-based
Slice(array, from, to) == SubSeq(array, from + 1, Min(to, Len(array)))

\* for (let i = 0; i < array.length; i += size) chunks.push(array.slice(i, i + size))
RECURSIVE ChunkFrom(_, _, _, _)
ChunkFrom(array, size, i, acc) ==
    IF i < Len(array)
    THEN ChunkFrom(array, size, i + size, Append(acc, Slice(array, i, i + size)))
    ELSE acc

chunkArray(array, size) == ChunkFrom(array, size, 0, <<>>)

\* the players an answer lists for the ids of one request: all of them, all
\* but the first, or none
Answers == {"all", "butFirst", "none"}

\* the profile the upstream holds for an id (PlayerSummary); the second id
\* has an empty display name
PlayerRecord(id) ==
    [steamid |-> id,
     personaname |-> IF id = 2 THEN "" ELSE "name" \o ToString(id),
     profileurl |-> "profile" \o ToString(id),
     avatar |-> "avatar" \o ToString(id),
     avatarmedium |-> "medium" \o ToString(id),
     avatarfull |-> "full" \o ToString(id)]

PlayersOf(chunk, answer) ==
    CASE answer = "all" -> [i \in DOMAIN chunk |-> PlayerRecord(chunk[i])]
      [] answer = "butFirst" -> [i \in 1..(Len(chunk) - 1) |-> PlayerRecord(chunk[i + 1])]
      [] OTHER -> <<>>

\* the locals of a getPlayerSummaries call that has not run
ClientFresh ==
    /\ chunks = <<>>
    /\ chunkIndex = 0
    /\ allResults = <<>>
    /\ requests = <<>>
    /\ received = <<>>
    /\ returned = Undef

\* the call has been made and has not run yet
ClientStart ==
    /\ clientPc = "called"
    /\ chunks = <<>>
    /\ chunkIndex = 0
    /\ allResults = <<>>
    /\ requests = <<>>
    /\ received = <<>>
    /\ returned = Undef

-----------------------------------------------------------------------------
(* The upstream client: getGameReviews and getReviewsWithPlayerData *)

MaxPageReviews == 3    \* most reviews on one review page

ReviewAuthors == {1, 2}

\* a review of a page (SteamReview), with the author stub the listing gives
PageReviews ==
    [recommendationid : {"r"},
     author : [steamid : ReviewAuthors, num_reviews : {7}],
     voted_up : BOOLEAN]

\* the bodies the review-listing route can answer with (SteamReviewResponse)
ReviewBodies ==
    [success : {0, 1, 2},
     query_summary : {[total_reviews |-> 9]},
     cursor : {"", "c1"},
     reviews : SeqsUpTo(PageReviews, MaxPageReviews)]

NoBody == [success |-> 0, query_summary |-> [total_reviews |-> 0], cursor |-> "",
           reviews |-> <<>>]

\* mutant: every non-zero status flag passes
IsSuccessNonZero(data) == data.success # 0

\* client.ts line 89: data.success !== 1 throws
IsSuccess(data) == data.success = 1

\* new Set(array) spread back to an array: first occurrences, in order
RECURSIVE Distinct(_, _, _)
Distinct(array, i, acc) ==
    IF i > Len(array) THEN acc
    ELSE Distinct(array, i + 1,
                  IF \E j \in DOMAIN acc : acc[j] = array[i] THEN acc
                  ELSE Append(acc, array[i]))

\* mutant: the ids are not de-duplicated
AuthorIdsRepeated(pageReviews) == [i \in DOMAIN pageReviews |-> pageReviews[i].author.steamid]

\* lines 136-138: [...new Set(reviewsData.reviews.map(r => r.author.steamid))]
AuthorIds(pageReviews) ==
    Distinct([i \in DOMAIN pageReviews |-> pageReviews[i].author.steamid], 1, <<>>)

\* lines 144-147: playerSummaries.forEach(player => playerMap.set(player.steamid, player))
RECURSIVE SetPlayers(_, _, _)
SetPlayers(playerMap, playerSummaries, i) ==
    IF i > Len(playerSummaries) THEN playerMap
    ELSE SetPlayers(Put(playerMap, playerSummaries[i].steamid, playerSummaries[i]),
                    playerSummaries, i + 1)

\* mutant: an empty field of the profile record is defaulted too (|| for ??)
EnrichedAuthorOr(author, playerMap) ==
    IF author.steamid \in DOMAIN playerMap
    THEN LET playerData == playerMap[author.steamid]
         IN  [personaname |-> IF Truthy(playerData.personaname)
                              THEN playerData.personaname ELSE "Unknown",
              profileurl |-> playerData.profileurl,
              avatar |-> playerData.avatar,
              avatarmedium |-> playerData.avatarmedium,
              avatarfull |-> playerData.avatarfull] @@ author
    ELSE [personaname |-> "Unknown", profileurl |-> "#", avatar |-> "",
          avatarmedium |-> "", avatarfull |-> ""] @@ author

\* lines 151-161: {...review.author, personaname: playerData?.personaname ??
\* "Unknown", ...}; the fields of a PlayerSummary are never null
EnrichedAuthor(author, playerMap) ==
    IF author.steamid \in DOMAIN playerMap
    THEN LET playerData == playerMap[author.steamid]
         IN  [personaname |-> playerData.personaname,
              profileurl |-> playerData.profileurl,
              avatar |-> playerData.avatar,
              avatarmedium |-> playerData.avatarmedium,
              avatarfull |-> playerData.avatarfull] @@ author
    ELSE [personaname |-> "Unknown", profileurl |-> "#", avatar |-> "",
          avatarmedium |-> "", avatarfull |-> ""] @@ author

\* lines 143-168: {...reviewsData, reviews: reviewsData.reviews.map(...)}
EnrichedPage(reviewsData, playerSummaries) ==
    LET playerMap == SetPlayers(EmptyMap, playerSummaries, 1)
    IN  [reviewsData EXCEPT !.reviews =
            [i \in DOMAIN @ |-> [@[i] EXCEPT !.author = EnrichedAuthor(@, playerMap)]]]

NoGameReviews == [state |-> "none", transport |-> "none", body |-> NoBody, value |-> NoBody]

\* the call has been made and has not run yet; getPlayerSummaries is not called
EnrichStart ==
    /\ enrichPc = "called"
    /\ gameReviews = NoGameReviews
    /\ enriched = NoBody

-----------------------------------------------------------------------------
(* The review-listing route: the pure parts *)

STEAM_API_TIMEOUT_MS == 5000
REVIEW_CACHE_TTL_MS == 5 * 60 * 1000

MaxRouteTicks == 2     \* most clock steps in a run of a route

\* the clock of a run of the route advances in steps of 200 s
ReviewTickMs == 40 * STEAM_API_TIMEOUT_MS

\* the keys of reviewQuerySchema; zod drops every other key
SchemaKeys == {"appId", "filter", "language", "day_range", "cursor", "review_type",
               "purchase_type", "num_per_page", "page"}
NumericKeys == {"day_range", "num_per_page", "page"}
\* the numeric fields of ReviewOptions
NumericOptions == {"day_range", "num_per_page", "pages"}

\* Number(str) of the query-string values the runs use
IsNumeric(str) == str \in {"", "0", "20", "30", "50", "101"}
NumberOf(str) ==
    CASE str = "20" -> 20 [] str = "30" -> 30 [] str = "50" -> 50 [] str = "101" -> 101
      [] OTHER -> 0

\* client.ts lines 73-81: new URLSearchParams({ appId }) and one entry
\* String(value) per option
QueryParams(appId, options) ==
    [appId |-> appId] @@
    [k \in DOMAIN options |-> IF k \in NumericOptions THEN ToString(options[k]) ELSE options[k]]

\* the option objects getGameReviews is called with
ClientCalls ==
    {[appId |-> "440", options |-> <<>>],
     [appId |-> "570",
      options |-> [filter |-> "all", language |-> "english", day_range |-> 30,
                   cursor |-> "c1", review_type |-> "positive",
                   purchase_type |-> "steam", num_per_page |-> 50, pages |-> 30]]}

\* query strings written by hand: empty values, hyphens, a page size out of
\* range and no app id
RawQueries ==
    {[appId |-> "440-", filter |-> "", cursor |-> ""],
     [appId |-> "440", filter |-> "-", cursor |-> ""],
     [filter |-> "recent", num_per_page |-> "101"]}

\* the query strings of the requests the route receives
ReviewQueries == {QueryParams(c.appId, c.options) : c \in ClientCalls} \cup RawQueries

\* lines 19-29, 52-56: reviewQuerySchema.safeParse(...).success
ValidQuery(query) ==
    /\ "appId" \in DOMAIN query /\ Len(query.appId) >= 1
    /\ "day_range" \in DOMAIN query => IsNumeric(query.day_range)
    /\ "review_type" \in DOMAIN query => query.review_type \in {"all", "positive", "negative"}
    /\ "purchase_type" \in DOMAIN query
           => query.purchase_type \in {"all", "steam", "non_steam_purchase"}
    /\ "num_per_page" \in DOMAIN query
           => /\ IsNumeric(query.num_per_page)
              /\ NumberOf(query.num_per_page) >= 1
              /\ NumberOf(query.num_per_page) <= 100
    /\ "page" \in DOMAIN query => IsNumeric(query.page)

\* validatedParams.data: the schema's keys, numbers coerced
ValidatedData(query) ==
    [k \in DOMAIN query \cap SchemaKeys |->
        IF k \in NumericKeys THEN NumberOf(query[k]) ELSE query[k]]

\* `${params.key}`: undefined prints as "undefined"
Interpolate(params, k) ==
    IF k \notin DOMAIN params THEN "undefined"
    ELSE IF k \in NumericKeys THEN ToString(params[k])
    ELSE params[k]

\* lines 39-41
getCacheKey(params) ==
    Interpolate(params, "appId") \o "-" \o Interpolate(params, "filter") \o "-"
        \o Interpolate(params, "language") \o "-" \o Interpolate(params, "day_range") \o "-"
        \o Interpolate(params, "cursor") \o "-" \o Interpolate(params, "review_type") \o "-"
        \o Interpolate(params, "purchase_type") \o "-"
        \o Interpolate(params, "num_per_page")

\* mutant: an empty or zero value is defaulted too (|| for ??)
OrDefaultFalsy(params, k, default) ==
    IF k \in DOMAIN params /\ (IF k \in NumericKeys THEN params[k] # 0 ELSE params[k] # "")
    THEN params[k] ELSE default

\* options.key ?? default
OrDefault(params, k, default) == IF k \in DOMAIN params THEN params[k] ELSE default

\* lines 79-99: the path and the search parameters of steamUrl
SteamUrl(params) ==
    LET always ==
            [path |-> params.appId,
             json |-> "1",
             filter |-> OrDefault(params, "filter", "recent"),
             language |-> OrDefault(params, "language", "all"),
             day_range |-> ToString(OrDefault(params, "day_range", 0)),
             review_type |-> OrDefault(params, "review_type", "all"),
             purchase_type |-> OrDefault(params, "purchase_type", "all"),
             num_per_page |-> ToString(OrDefault(params, "num_per_page", 20))]
    IN  IF "cursor" \in DOMAIN params /\ Truthy(params.cursor)
        THEN always @@ [cursor |-> params.cursor]
        ELSE always

\* what the upstream answers a listing request with
ReviewData ==
    {[NoBody EXCEPT !.success = 1, !.cursor = "c1"], [NoBody EXCEPT !.success = 2]}

\* Date.now() - cachedData.timestamp < CACHE_TTL_MS
ReviewFresh(entry, t) == t - entry.timestamp < REVIEW_CACHE_TTL_MS

\* reviewCache.set(cacheKey, { data, timestamp: Date.now() })
ReviewCacheSet(cache, cacheKey, data, t) == Put(cache, cacheKey, [data |-> data, timestamp |-> t])

NoJson == [status |-> 0, data |-> NoBody, error |-> Undef, details |-> Undef]

\* NextResponse.json(data): status 200
Json(data) == [status |-> 200, data |-> data, error |-> Undef, details |-> Undef]

\* NextResponse.json({ error, details }, { status })
JsonFailure(status, error, details) ==
    [status |-> status, data |-> NoBody, error |-> error, details |-> details]

\* lines 137-146: the answer of the outer catch to the error thrown
Failed(message) == JsonFailure(500, "Failed to retrieve data from Steam API", message)

\* the statuses the upstream answers a listing request with
ReviewStatuses == {200, 404}

IdleReviewHandler ==
    [pc |-> "idle", query |-> <<>>, cacheKey |-> Undef, at |-> 0, steamUrl |-> <<>>,
     fetches |-> 0, served |-> "none", wrote |-> -1]

\* the module has been loaded and no request has arrived
ReviewsStart ==
    /\ reviewCache = EmptyMap
    /\ reviewHandler = [r \in Requests |-> IdleReviewHandler]
    /\ reviewResponse = [r \in Requests |-> NoJson]

-----------------------------------------------------------------------------
(* The player-profile route: the pure parts *)

MAX_STEAM_IDS == 100
PLAYER_CACHE_TTL_MS == 10 * 60 * 1000

\* the clock of a run of the route advances in steps of 400 s
PlayerTickMs == 80 * STEAM_API_TIMEOUT_MS

\* a model id n > 0 stands for a 17-digit string, 0 for a string that is not
\* one, and -n for the 17-digit string n with white space around it

\* id.trim()
Trim(id) == IF id < 0 THEN -id ELSE id

\* line 27: steamIdRegex.test(id), /^\d{17}$/
WellFormedId(id) == id > 0

\* line 35: steamIdRegex.test(id.trim())
AcceptedId(id) == WellFormedId(Trim(id))

\* the steamids parameter as the list of ids it joins with commas; a request
\* can also come without the parameter
PlayerQueries ==
    {<<>>, [steamids |-> <<>>], [steamids |-> <<0>>], [steamids |-> <<1>>],
     [steamids |-> <<-1>>],
     [steamids |-> [i \in 1..MAX_STEAM_IDS |-> i]],
     [steamids |-> [i \in 1..(MAX_STEAM_IDS + 1) |-> i]]}

\* lines 29-40, 54-56: playerQuerySchema.safeParse(...).success
ValidPlayerQuery(query) ==
    /\ "steamids" \in DOMAIN query
    /\ Len(query.steamids) >= 1
    /\ \A i \in DOMAIN query.steamids : AcceptedId(query.steamids[i])

\* mutant: a list of exactly the maximum is refused too
TooManyInclusive(idArray) == Len(idArray) >= MAX_STEAM_IDS

\* line 71: idArray.length > MAX_STEAM_IDS
TooMany(idArray) == Len(idArray) > MAX_STEAM_IDS

\* Date.now() - cachedData.timestamp < CACHE_TTL_MS
PlayerFresh(entry, t) == t - entry.timestamp < PLAYER_CACHE_TTL_MS

\* playerCache.set(steamids, { data, timestamp: Date.now() })
PlayerCacheSet(cache, steamids, data, t) == Put(cache, steamids, [data |-> data, timestamp |-> t])

NoPlayers == [response |-> [players |-> <<>>]]

\* what the upstream answers a profile request with
PlayerData == {NoPlayers, [response |-> [players |-> <<PlayerRecord(1)>>]]}

NoPlayerJson == [status |-> 0, data |-> NoPlayers, error |-> Undef]

\* NextResponse.json(data): status 200
PlayerJson(data) == [status |-> 200, data |-> data, error |-> Undef]

\* NextResponse.json({ error }, { status })
PlayerJsonFailure(status, error) == [status |-> status, data |-> NoPlayers, error |-> error]

IdlePlayerHandler ==
    [pc |-> "idle", query |-> <<>>, at |-> 0, fetches |-> 0, served |-> "none", wrote |-> -1]

\* the module has been loaded and no request has arrived
PlayersStart ==
    /\ playerCache = EmptyMap
    /\ playerHandler = [r \in Requests |-> IdlePlayerHandler]
    /\ playerResponse = [r \in Requests |-> NoPlayerJson]

-----------------------------------------------------------------------------
(* The review hook: the pure parts *)

MaxPagesOption == 3    \* largest pages option
BigPage == 60          \* size of a large review page

DEFAULT_LIMIT == 500
HARD_LIMIT == 100
NUM_PER_PAGE == 20

\* the options objects the hook is used with (UseSteamReviewsOptions)
HookOptionSets ==
    {<<>>}
        \cup {[pages |-> n] : n \in 0..MaxPagesOption}
        \cup {[fetchAll |-> TRUE], [fetchAll |-> FALSE, pages |-> 2]}
        \cup {[fetchAll |-> TRUE, limit |-> n] : n \in {0, 2, BigPage + HARD_LIMIT}}

\* options.key ?? default
Option(options, k, default) == IF k \in DOMAIN options THEN options[k] ELSE default

\* options.fetchAll as a condition
FetchAll(options) == Option(options, "fetchAll", FALSE)

\* mutant: the loop runs one page further
MorePagesOneMore(i, pagesToFetch, cursor) == i <= pagesToFetch /\ Truthy(cursor)

\* line 66: i < pagesToFetch && cursor
MorePages(i, pagesToFetch, cursor) == i < pagesToFetch /\ Truthy(cursor)

\* mutant: the limit is not consulted
MoreOfAllUnlimited(cursor, count, options) == Truthy(cursor)

\* line 51: cursor && allReviews.length < (options.limit ?? 500)
MoreOfAll(cursor, count, options) ==
    Truthy(cursor) /\ count < Option(options, "limit", DEFAULT_LIMIT)

\* the condition under which the call asks for a further page
Continues(options, i, cursor, count) ==
    IF FetchAll(options) THEN MoreOfAll(cursor, count, options)
    ELSE MorePages(i, Option(options, "pages", 1), cursor)

\* lines 39-42, 52-56: {...options, num_per_page: 20} and the cursor if any
FirstRequest(options) == [num_per_page |-> NUM_PER_PAGE] @@ options
NextRequest(options, cursor) == [num_per_page |-> NUM_PER_PAGE, cursor |-> cursor] @@ options

\* the sizes and cursors of the pages the client answers with
PageSizes == {0, 1, BigPage}
Cursors == {"", "c1", "c2"}

\* the cursors the page answering request n can carry: the upstream varies
\* its cursor over the first pages and then repeats one
CursorsOf(n) == IF n <= MaxPagesOption THEN Cursors ELSE {"", "c1"}

\* the reviews of the page that answers request n
PageOf(n, size) == [j \in 1..size |-> [request |-> n, index |-> j]]

\* mutant: the new page is put in front of the pages collected so far
AppendPageInFront(allReviews, nextPage) == nextPage \o allReviews

\* line 60: [...allReviews, ...nextPage.reviews]
AppendPage(allReviews, nextPage) == allReviews \o nextPage

SummaryOf(n) == [total_reviews |-> n]
NoSummary == [null |-> TRUE]
NoHookError == "null"

\* what the hook showed before the call
PreviousReviews == <<[request |-> 0, index |-> 1]>>

\* the hook has rendered and fetchReviews has been called and has not run
HookStart ==
    /\ hookPc = "called"
    /\ collected = <<>>
    /\ hookCursor = ""
    /\ loopIndex = 0
    /\ pageRequests = <<>>
    /\ hookSummary = NoSummary
    /\ hookLoading = FALSE
    /\ hookError = NoHookError
    /\ calls = <<>>

-----------------------------------------------------------------------------
(* The review hook over several renders: the effect and overlapping calls *)

MaxCalls == 2          \* most fetchReviews calls the effect starts in one run

AppIds == {"440", "570"}
CallIds == 1..MaxCalls

\* the options the hook is rendered with while the app id changes
RenderOptionSets == {<<>>, [pages |-> 2]}

RenderPageSizes == {0, 1}
RenderCursors == {"", "c1"}

\* the reviews and the summary of the page answering request n for an app id
PageFor(appId, n, size) == [j \in 1..size |-> [appId |-> appId, request |-> n, index |-> j]]
SummaryFor(appId) == [appId |-> appId, total_reviews |-> 9]

\* a fetchReviews call right after lines 33-42: its closure's appId, its
\* locals, and the number of page requests it has issued
NewCall(appId) ==
    [appId |-> appId, pc |-> "first", allReviews |-> <<>>, cursor |-> "", i |-> 0,
     requested |-> 1]

InFlight(call) == call.pc \in {"first", "next"}

-----------------------------------------------------------------------------
(* parseReviewPage: the pagination of a page, from its markup *)

MaxLinks == 2          \* most page links in a pagination control

Digits == {"0", "1", "2", "3", "4", "5", "6", "7", "8", "9"}

DigitValue(c) == CHOOSE n \in 0..9 : ToString(n) = c

\* the run of digits of the string s that starts at position i: (\d+)
RECURSIVE DigitRun(_, _)
DigitRun(s, i) ==
    IF i <= Len(s) /\ s[i] \in Digits THEN <<s[i]>> \o DigitRun(s, i + 1) ELSE <<>>

\* parseInt(digits, 10)
RECURSIVE ParseInt(_, _)
ParseInt(digits, acc) ==
    IF digits = <<>> THEN acc ELSE ParseInt(Tail(digits), 10 * acc + DigitValue(Head(digits)))

\* the position after the white space of s from position i on: \s*
RECURSIVE SkipSpace(_, _)
SkipSpace(s, i) == IF i <= Len(s) /\ s[i] = " " THEN SkipSpace(s, i + 1) ELSE i

\* line 345: /^\s*<\s*(\d+)/.exec(text)?.[1], the empty string for no match
CurrentPageMatch(text) ==
    LET lt == SkipSpace(text, 1)
    IN  IF lt <= Len(text) /\ text[lt] = "<"
        THEN DigitRun(text, SkipSpace(text, lt + 1))
        ELSE <<>>

\* line 354: href.match(/\?p=(\d+)/)?.[1], the empty string for no match
PageMatch(href) ==
    LET at == {i \in 1..(Len(href) - 3) :
                  /\ href[i] = "?" /\ href[i + 1] = "p" /\ href[i + 2] = "="
                  /\ href[i + 3] \in Digits}
    IN  IF at = {} THEN <<>>
        ELSE DigitRun(href, (CHOOSE i \in at : \A j \in at : i <= j) + 3)

\* mutant: the first page link is read
FirstPageLink(links) == links[1]

\* line 351: paginationBlock.find("a.pagelink").last()
LastPageLink(links) == links[Len(links)]

\* lines 338-360: the pagination of a page whose markup has (or has not) a
\* .workshopBrowsePagingControls block with the given text and page links
Pagination(html) ==
    LET default == [currentPage |-> 1, totalPages |-> 1]
    IN  IF ~html.control THEN default
        ELSE LET current == CurrentPageMatch(html.text)
                 withCurrent ==
                     IF current # <<>> THEN [default EXCEPT !.currentPage = ParseInt(current, 0)]
                     ELSE default
             IN  IF html.links # <<>>
                 THEN LET link == LastPageLink(html.links)
                          pageMatch == IF link.hasHref THEN PageMatch(link.href) ELSE <<>>
                      IN  IF pageMatch # <<>>
                          THEN [withCurrent EXCEPT !.totalPages = ParseInt(pageMatch, 0)]
                          ELSE withCurrent
                 ELSE [withCurrent EXCEPT !.totalPages = 1]

\* the hrefs of the page links of a feed page
Hrefs ==
    {<<"u", "?", "p", "=", "2">>,
     <<"u", "?", "p", "=", "1", "2">>,
     <<"u", "?", "p", "=", "0">>,
     <<"u", "?", "p", "=", "3", "&", "x", "=", "1">>,
     <<"u", "?", "p", "=">>,
     <<"u", "?", "p", "=", "x">>,
     <<"u", "?", "x", "=", "1", "&", "p", "=", "3">>,
     <<"u">>}

\* an a.pagelink element with or without an href attribute
PageLinks == {[hasHref |-> TRUE, href |-> h] : h \in Hrefs} \cup {[hasHref |-> FALSE, href |-> <<>>]}

\* the texts of a pagination control
ControlTexts == {<<"<", " ", "1", " ", "2", " ", ">">>, <<"<", "2", " ", "3">>, <<"1", " ", "2", " ", ">">>, <<>>}

\* the pagination markup of a feed page
Markups ==
    [control : BOOLEAN, text : ControlTexts, links : SeqsUpTo(PageLinks, MaxLinks)]

NoPagination == [currentPage |-> 0, totalPages |-> 0]
NoMarkup == [control |-> FALSE, text |-> <<>>, links |-> <<>>]

\* parseReviewPage has not been called
ParserIdle == pageHtml = NoMarkup /\ pagination = NoPagination

-----------------------------------------------------------------------------
(* The parts that do not run *)

ClientIdle == steamIds = <<>> /\ ClientStart

PlayersIdle == apiKey = "key" /\ PlayersStart

HookIdle == hookAppId = Undef /\ hookOptions = <<>> /\ hookReviews = <<>> /\ HookStart

NewPartsIdle == EnrichStart /\ ReviewsStart /\ PlayersIdle /\ HookIdle /\ ParserIdle

-----------------------------------------------------------------------------
(* Inputs of one run *)

Stubs == [steamid : Authors, profileurl : ProfileUrls]
\* a negative review is dropped before its author is read: one stub shape
\* (with a feed URL) stands for its author
SeedReviews ==
    {r \in [author : Stubs, voted_up : BOOLEAN] : r.voted_up \/ r.author.profileurl = "u1"}

Rank(a) == CASE a = "a1" -> 1 [] a = "a2" -> 2 [] OTHER -> 3

\* author ids are opaque and only compared for equality: a seed list names
\* its authors a1, a2, a3 in the order of their first appearance
FirstAppearanceOrder(rs) ==
    \A i \in DOMAIN rs :
        \/ Rank(rs[i].author.steamid) = 1
        \/ \E j \in 1..(i - 1) : Rank(rs[j].author.steamid) >= Rank(rs[i].author.steamid) - 1

SeedLists == {rs \in SeqsUpTo(SeedReviews, MaxSeeds) : FirstAppearanceOrder(rs)}

\* the ways to lay a list of n review boxes out over pages 1..np in order
Layouts(n, np) ==
    {lay \in [1..n -> 1..np] : \A i \in 1..n, j \in 1..n : i <= j => lay[i] <= lay[j]}

\* the feed of np pages that shows the boxes bs laid out by lay
FeedOf(np, bs, lay) ==
    [totalPages |-> np,
     pages |-> [p \in 1..np |->
                  LET before == Cardinality({i \in DOMAIN bs : lay[i] < p})
                      here == Cardinality({i \in DOMAIN bs : lay[i] = p})
                  IN  [j \in 1..here |-> bs[before + j]]]]

\* every feed of up to MaxTotalPages pages holding up to MaxEntries boxes
Feeds ==
    UNION {{FeedOf(np, bs, lay) : lay \in Layouts(Len(bs), np)} :
              <<np, bs>> \in (1..MaxTotalPages) \X SeqsUpTo(BoxKinds, MaxEntries)}

\* a fixed pair of feeds for the runs that vary the seed list
BaseFeed ==
    [u \in FeedUrls |->
        IF u = "u1"
        THEN [totalPages |-> 2,
              pages |-> << <<Box("g1", "positive"), Box("g2", "positive")>>,
                           <<Box("g1", "negative"), Box("", "positive"), Box("g2", "positive")>> >>]
        ELSE [totalPages |-> 1,
              pages |-> << <<Box("g2", "positive"), Box("g1", "positive")>> >>]]

OneSeed == << [author |-> [steamid |-> "a1", profileurl |-> "u1"], voted_up |-> TRUE] >>

-----------------------------------------------------------------------------
(* The state machine *)

\* the call has been made with its arguments and has not run yet
AggregatorStart ==
    /\ pc = "called"
    /\ authorList = <<>>
    /\ nextAuthor = 1
    /\ reviewers = EmptyMap
    /\ keyOrder = <<>>
    /\ processedCount = 0
    /\ progress = <<>>
    /\ reported = [a \in Authors |-> 0]
    /\ task = [a \in Authors |-> "none"]
    /\ parse = [a \in Authors |-> NoParse]
    /\ page = [a \in Authors |-> [p \in Pages |-> "none"]]
    /\ fetchCount = [a \in Authors |-> [p \in Pages |-> 0]]
    /\ fetchUrl = [a \in Authors |-> Undef]
    /\ lateResponses = 0

Init ==
    /\ \/ /\ initialReviews \in SeedLists
          /\ feed = BaseFeed
          /\ maxPagesPerUser = MaxTotalPages
          /\ targetAppId = "g1"
       \/ /\ initialReviews = OneSeed
          /\ feed \in {[BaseFeed EXCEPT !["u1"] = f] : f \in Feeds}
          /\ maxPagesPerUser \in 0..MaxTotalPages
          /\ targetAppId \in {Undef, "g1"}
    /\ AggregatorStart
    /\ ProxyStart
    /\ ClientIdle
    /\ NewPartsIdle
    /\ scenario = "aggregation"

\* lines 163-182: filter, uniqueAuthors, authorList, processedCount = 0
Call ==
    /\ pc = "called"
    /\ authorList' = UniqueAuthorList(initialReviews)
    /\ pc' = "mapping"
    /\ UNCHANGED <<inputs, outsideAggregator, nextAuthor, reviewers, keyOrder, processedCount, progress,
                   reported, task, parse, page, fetchCount, fetchUrl, lateResponses>>

\* lines 185-216: authorList.map calls the async callback for the next author;
\* it runs to its return (no profile URL) or to the first await (the page-1
\* fetch of parseUserReviews).  After the last author the caller awaits
\* Promise.allSettled.
Launch ==
    /\ pc = "mapping"
    /\ nextAuthor <= Len(authorList)
    /\ LET author == authorList[nextAuthor]
           a == author.steamid
           k == AggregateKey(author)
           profileUrl == author.profileurl
       IN  /\ keyOrder' = IF k \in DOMAIN reviewers THEN keyOrder ELSE Append(keyOrder, k)
           /\ IF NoProfileUrl(profileUrl)
              THEN /\ reviewers' = Put(reviewers, k,
                         [NewAggregate(author) EXCEPT !.error = "Profile URL not available"])
                   /\ processedCount' = processedCount + 1
                   /\ progress' = Append(progress, OnProgressArgs(processedCount + 1, authorList))
                   /\ reported' = [reported EXCEPT ![a] = @ + 1]
                   /\ task' = [task EXCEPT ![a] = "fulfilled"]
                   /\ UNCHANGED <<parse, page, fetchCount, fetchUrl, lateResponses>>
              ELSE /\ reviewers' = Put(reviewers, k, NewAggregate(author))
                   /\ task' = [task EXCEPT ![a] = "pending"]
                   /\ parse' = [parse EXCEPT ![a] = [NoParse EXCEPT !.state = "pending"]]
                   /\ page' = [page EXCEPT ![a][1] = "inflight"]
                   /\ fetchCount' = [fetchCount EXCEPT ![a][1] = @ + 1]
                   /\ fetchUrl' = [fetchUrl EXCEPT ![a] = profileUrl]
                   /\ UNCHANGED <<processedCount, progress, reported>>
    /\ nextAuthor' = nextAuthor + 1
    /\ UNCHANGED <<inputs, outsideAggregator, pc, authorList, lateResponses>>

\* line 258: the caller reaches await Promise.allSettled(authorPromises)
Await ==
    /\ pc = "mapping"
    /\ nextAuthor > Len(authorList)
    /\ pc' = "awaiting"
    /\ UNCHANGED <<inputs, outsideAggregator, authorList, nextAuthor, reviewers, keyOrder, processedCount,
                   progress, reported, task, parse, page, fetchCount, fetchUrl, lateResponses>>

\* a request can only be answered with a feed page when its URL has one
Outcomes(a) == IF fetchUrl[a] \in DOMAIN feed THEN {"ok", "failed"} ELSE {"failed"}

\* lines 458-506: the page-1 response arrives.  On success the page is parsed
\* and either the call returns (one page) or the requests for pages
\* 2..pagesToFetch are issued and the call awaits Promise.all.
FirstPageResponse(a, outcome) ==
    /\ pc \in {"awaiting", "resolved"}
    /\ page[a][1] = "inflight"
    /\ outcome \in Outcomes(a)
    /\ IF outcome = "ok"
       THEN LET firstPageResult == parseReviewPage(feed[fetchUrl[a]], 1)
                totalPages == firstPageResult.pagination.totalPages
                pagesToFetch == PagesToFetch(totalPages, maxPagesPerUser)
            IN  /\ page' = [page EXCEPT ![a] =
                       [p \in Pages |-> IF p = 1 THEN "ok"
                                        ELSE IF p <= pagesToFetch THEN "inflight"
                                        ELSE @[p]]]
                /\ fetchCount' = [fetchCount EXCEPT ![a] =
                       [p \in Pages |-> IF 2 <= p /\ p <= pagesToFetch THEN @[p] + 1 ELSE @[p]]]
                /\ parse' = [parse EXCEPT ![a] =
                       [state |-> IF pagesToFetch > 1 THEN "pending" ELSE "fulfilled",
                        reviews |-> firstPageResult.reviews,
                        totalPages |-> totalPages,
                        pagesToFetch |-> pagesToFetch,
                        error |-> NoError]]
       ELSE /\ page' = [page EXCEPT ![a][1] = "failed"]
            /\ parse' = [parse EXCEPT ![a].state = "rejected",
                                      ![a].error = Rethrow(Thrown(1))]
            /\ UNCHANGED fetchCount
    /\ lateResponses' = IF pc = "resolved" THEN lateResponses + 1 ELSE lateResponses
    /\ UNCHANGED <<inputs, outsideAggregator, pc, authorList, nextAuthor, reviewers, keyOrder, processedCount,
                   progress, reported, task, fetchUrl>>

\* lines 482-503: the response of one of the pages 2..pagesToFetch arrives.
\* Promise.all rejects with the first failure and fulfils with the last
\* success; the pages are then appended in page order.
PageResponse(a, p, outcome) ==
    /\ pc \in {"awaiting", "resolved"}
    /\ p >= 2
    /\ page[a][p] = "inflight"
    /\ outcome \in Outcomes(a)
    /\ IF outcome = "ok"
       THEN /\ page' = [page EXCEPT ![a][p] = "ok"]
            /\ IF /\ parse[a].state = "pending"
                  /\ AllFulfilled(page[a], p, parse[a].pagesToFetch)
               THEN parse' = [parse EXCEPT
                        ![a].state = "fulfilled",
                        ![a].reviews = ConcatPages(@, feed[fetchUrl[a]], 2, parse[a].pagesToFetch)]
               ELSE UNCHANGED parse
       ELSE /\ page' = [page EXCEPT ![a][p] = "failed"]
            /\ IF parse[a].state = "pending"
               THEN parse' = [parse EXCEPT ![a].state = "rejected",
                                           ![a].error = Rethrow(Thrown(p))]
               ELSE UNCHANGED parse
    /\ lateResponses' = IF pc = "resolved" THEN lateResponses + 1 ELSE lateResponses
    /\ UNCHANGED <<inputs, outsideAggregator, pc, authorList, nextAuthor, reviewers, keyOrder, processedCount,
                   progress, reported, task, fetchCount, fetchUrl>>

\* lines 213-254: parseUserReviews has settled and the reviewer's task resumes:
\* the rest of the try block or the catch block, then the finally block
Resume(a) ==
    /\ task[a] = "pending"
    /\ parse[a].state \in {"fulfilled", "rejected"}
    /\ LET author == CHOOSE x \in {authorList[i] : i \in DOMAIN authorList} : x.steamid = a
           k == AggregateKey(author)
       IN  reviewers' = [reviewers EXCEPT ![k] =
               IF parse[a].state = "fulfilled"
               THEN RecordReviews(@, parse[a], targetAppId)
               ELSE RecordError(@, parse[a].error)]
    /\ processedCount' = processedCount + 1
    /\ progress' = Append(progress, OnProgressArgs(processedCount + 1, authorList))
    /\ reported' = [reported EXCEPT ![a] = @ + 1]
    /\ task' = [task EXCEPT ![a] = "fulfilled"]
    /\ UNCHANGED <<inputs, outsideAggregator, pc, authorList, nextAuthor, keyOrder, parse, page,
                   fetchCount, fetchUrl, lateResponses>>

\* lines 258-261: every task has settled; the call returns analysisData
Resolve ==
    /\ pc = "awaiting"
    /\ AllSettled([i \in DOMAIN authorList |-> task[authorList[i].steamid]])
    /\ pc' = "resolved"
    /\ UNCHANGED <<inputs, outsideAggregator, authorList, nextAuthor, reviewers, keyOrder, processedCount,
                   progress, reported, task, parse, page, fetchCount, fetchUrl, lateResponses>>

Next ==
    \/ Call
    \/ Launch
    \/ Await
    \/ \E a \in Authors, o \in {"ok", "failed"} : FirstPageResponse(a, o)
    \/ \E a \in Authors, p \in Pages, o \in {"ok", "failed"} : PageResponse(a, p, o)
    \/ \E a \in Authors : Resume(a)
    \/ Resolve

Spec == Init /\ [][Next]_vars

-----------------------------------------------------------------------------
(* The content retrieval gateway: the state machine.  A GET invocation      *)
(* suspends at await fetch and at await response.text(); other invocations  *)
(* and the clock run in between.                                            *)

\* the aggregator is not running
AggregatorIdle ==
    /\ initialReviews = <<>>
    /\ maxPagesPerUser = 0
    /\ targetAppId = Undef
    /\ feed = BaseFeed
    /\ AggregatorStart

ProxyInit ==
    /\ ProxyStart
    /\ AggregatorIdle
    /\ ClientIdle
    /\ NewPartsIdle
    /\ scenario = "proxy"

\* lines 20-69: validation, the cache lookup and the call of fetch.  Requests
\* are numbered in the order of their arrival.
ProxyGet(r, targetUrl) ==
    /\ handler[r].pc = "idle"
    /\ r > 1 => handler[r - 1].pc # "idle"
    /\ LET arrived == [handler EXCEPT ![r].targetUrl = targetUrl, ![r].at = now]
           finish(res) ==
               /\ handler' = [arrived EXCEPT ![r].pc = "done"]
               /\ response' = [response EXCEPT ![r] = res]
               /\ UNCHANGED contentCache
       IN  IF ~Truthy(targetUrl)
           THEN finish(JsonError(400, "URL parameter is required"))
           ELSE IF ~StartsWith(targetUrl, TrustedPrefix)
           THEN finish(JsonError(403, "Only Steam Community URLs are allowed"))
           ELSE IF targetUrl \in DOMAIN contentCache /\ Fresh(contentCache[targetUrl], now)
           THEN finish(Html(contentCache[targetUrl].content, "HIT"))
           ELSE /\ contentCache' = IF targetUrl \in DOMAIN contentCache
                                   THEN CacheDelete(contentCache, targetUrl)
                                   ELSE contentCache
                /\ handler' = [arrived EXCEPT ![r].pc = "fetching",
                                              ![r].calledOut = TRUE,
                                              ![r].upstream = [name |-> "pending", status |-> 0]]
                /\ UNCHANGED response
    /\ UNCHANGED <<now, outsideProxy>>

\* lines 63-81: the upstream answers before the timeout
FetchResponse(r, status) ==
    /\ handler[r].pc = "fetching"
    /\ now - handler[r].at < FETCH_TIMEOUT_MS
    /\ IF Ok(status)
       THEN /\ handler' = [handler EXCEPT ![r].pc = "reading",
                                          ![r].upstream = [name |-> "response", status |-> status]]
            /\ UNCHANGED response
       ELSE /\ handler' = [handler EXCEPT ![r].pc = "done",
                                          ![r].upstream = [name |-> "response", status |-> status]]
            /\ response' = [response EXCEPT ![r] = UpstreamError(status)]
    /\ UNCHANGED <<contentCache, now, outsideProxy>>

\* lines 59, 97-106: the timer fires and the fetch rejects with an AbortError
FetchAbort(r) ==
    /\ handler[r].pc = "fetching"
    /\ now - handler[r].at >= FETCH_TIMEOUT_MS
    /\ handler' = [handler EXCEPT ![r].pc = "done",
                                  ![r].upstream = [name |-> "AbortError", status |-> 0]]
    /\ response' = [response EXCEPT ![r] = FetchFailure("AbortError")]
    /\ UNCHANGED <<contentCache, now, outsideProxy>>

\* lines 97-118: the fetch rejects for another reason (no connection)
FetchReject(r) ==
    /\ handler[r].pc = "fetching"
    /\ now - handler[r].at < FETCH_TIMEOUT_MS
    /\ handler' = [handler EXCEPT ![r].pc = "done",
                                  ![r].upstream = [name |-> "TypeError", status |-> 0]]
    /\ response' = [response EXCEPT ![r] = FetchFailure("TypeError")]
    /\ UNCHANGED <<contentCache, now, outsideProxy>>

\* lines 83-96: the body has been read; it is cached and returned
ReadBody(r, content) ==
    /\ handler[r].pc = "reading"
    /\ contentCache' = CacheSet(contentCache, handler[r].targetUrl, content, now)
    /\ handler' = [handler EXCEPT ![r].pc = "done", ![r].html = content, ![r].wrote = now]
    /\ response' = [response EXCEPT ![r] = Html(content, "MISS")]
    /\ UNCHANGED <<now, outsideProxy>>

\* lines 83, 97-118: reading the body fails (the timer is already cleared)
ReadFail(r) ==
    /\ handler[r].pc = "reading"
    /\ handler' = [handler EXCEPT ![r].pc = "done",
                                  ![r].upstream = [name |-> "TypeError", status |-> @.status]]
    /\ response' = [response EXCEPT ![r] = FetchFailure("TypeError")]
    /\ UNCHANGED <<contentCache, now, outsideProxy>>

\* time passes
Tick ==
    /\ now < MaxTicks * TickMs
    /\ now' = now + TickMs
    /\ UNCHANGED <<contentCache, handler, response, outsideProxy>>

ProxyNext ==
    \/ \E r \in Requests, u \in TargetUrls : ProxyGet(r, u)
    \/ \E r \in Requests, st \in UpstreamStatuses : FetchResponse(r, st)
    \/ \E r \in Requests : FetchAbort(r)
    \/ \E r \in Requests : FetchReject(r)
    \/ \E r \in Requests, c \in Bodies : ReadBody(r, c)
    \/ \E r \in Requests : ReadFail(r)
    \/ Tick

ProxySpec == ProxyInit /\ [][ProxyNext]_vars

-----------------------------------------------------------------------------
(* The upstream client: the state machine of one getPlayerSummaries call *)

IdLists == {[i \in 1..n |-> i] : n \in 0..MaxIds}

ClientInit ==
    /\ steamIds \in IdLists
    /\ ClientStart
    /\ AggregatorIdle
    /\ ProxyStart
    /\ NewPartsIdle
    /\ scenario = "client"

\* lines 101-115: the empty list returns at once; otherwise the list is cut
\* into chunks and the request for the first chunk is issued
GetPlayerSummaries ==
    /\ clientPc = "called"
    /\ IF Len(steamIds) = 0
       THEN /\ returned' = <<>>
            /\ clientPc' = "returned"
            /\ UNCHANGED <<chunks, chunkIndex, requests>>
       ELSE /\ chunks' = chunkArray(steamIds, ChunkSize)
            /\ chunkIndex' = 1
            /\ requests' = Append(requests, chunkArray(steamIds, ChunkSize)[1])
            /\ clientPc' = "awaiting"
            /\ UNCHANGED returned
    /\ UNCHANGED <<steamIds, allResults, received, outsideClient>>

\* lines 111-124: the answer to the pending request lists players; they are
\* appended and the next chunk is requested, or the call returns
PlayersResponse(answer) ==
    /\ clientPc = "awaiting"
    /\ LET players == PlayersOf(chunks[chunkIndex], answer)
       IN  /\ allResults' = allResults \o players
           /\ received' = Append(received, players)
           /\ IF chunkIndex < Len(chunks)
              THEN /\ chunkIndex' = chunkIndex + 1
                   /\ requests' = Append(requests, chunks[chunkIndex + 1])
                   /\ UNCHANGED <<clientPc, returned>>
              ELSE /\ returned' = allResults \o players
                   /\ clientPc' = "returned"
                   /\ UNCHANGED <<chunkIndex, requests>>
    /\ UNCHANGED <<steamIds, chunks, outsideClient>>

\* mutant: a failed chunk is skipped and the next chunk is requested
PlayersFailureSkipped ==
    /\ clientPc = "awaiting"
    /\ IF chunkIndex < Len(chunks)
       THEN /\ chunkIndex' = chunkIndex + 1
            /\ requests' = Append(requests, chunks[chunkIndex + 1])
            /\ UNCHANGED <<clientPc, returned>>
       ELSE /\ returned' = allResults
            /\ clientPc' = "returned"
            /\ UNCHANGED <<chunkIndex, requests>>
    /\ UNCHANGED <<steamIds, chunks, allResults, received, outsideClient>>

\* lines 40-47, 117-119: the request fails or its answer has no player list;
\* the call rejects
PlayersFailure ==
    /\ clientPc = "awaiting"
    /\ clientPc' = "thrown"
    /\ UNCHANGED <<steamIds, chunks, chunkIndex, allResults, requests, received, returned,
                   outsideClient>>

ClientNext ==
    \/ GetPlayerSummaries
    \/ \E answer \in Answers : PlayersResponse(answer)
    \/ PlayersFailure

ClientSpec == ClientInit /\ [][ClientNext]_vars

-----------------------------------------------------------------------------
(* The upstream client: the state machine of one getReviewsWithPlayerData   *)
(* call.  It awaits getGameReviews and then getPlayerSummaries, whose steps *)
(* are the actions above.                                                   *)

EnrichInit ==
    /\ EnrichStart
    /\ steamIds = <<>>
    /\ clientPc = "idle"
    /\ ClientFresh
    /\ AggregatorIdle
    /\ ProxyStart
    /\ ReviewsStart
    /\ PlayersIdle
    /\ HookIdle
    /\ ParserIdle
    /\ scenario = "enrich"

\* lines 132-133, 69-87: getGameReviews builds the query and awaits makeRequest
GetReviewsWithPlayerData ==
    /\ enrichPc = "called"
    /\ gameReviews' = [gameReviews EXCEPT !.state = "pending"]
    /\ enrichPc' = "reviews"
    /\ UNCHANGED <<enriched, clientVars, outsideEnrich>>

\* lines 83-93, 133-141: the listing arrives.  getGameReviews throws on a
\* status flag other than 1 and otherwise returns the body; the caller then
\* collects the author ids and calls getPlayerSummaries.
ReviewsResponse(body) ==
    /\ enrichPc = "reviews"
    /\ IF IsSuccess(body)
       THEN /\ gameReviews' = [state |-> "fulfilled", transport |-> "ok", body |-> body,
                               value |-> body]
            /\ steamIds' = AuthorIds(body.reviews)
            /\ clientPc' = "called"
            /\ enrichPc' = "players"
       ELSE /\ gameReviews' = [state |-> "rejected", transport |-> "ok", body |-> body,
                               value |-> NoBody]
            /\ enrichPc' = "thrown"
            /\ UNCHANGED <<steamIds, clientPc>>
    /\ UNCHANGED <<enriched, chunks, chunkIndex, allResults, requests, received, returned,
                   outsideEnrich>>

\* lines 37-48: the request fails or is answered with an error status;
\* makeRequest throws and so do getGameReviews and its caller
ReviewsFailure ==
    /\ enrichPc = "reviews"
    /\ gameReviews' = [gameReviews EXCEPT !.state = "rejected", !.transport = "failed"]
    /\ enrichPc' = "thrown"
    /\ UNCHANGED <<enriched, clientVars, outsideEnrich>>

\* lines 141-168: getPlayerSummaries has returned; the reviews are enriched
Enrich ==
    /\ enrichPc = "players"
    /\ clientPc = "returned"
    /\ enriched' = EnrichedPage(gameReviews.value, returned)
    /\ enrichPc' = "returned"
    /\ UNCHANGED <<gameReviews, clientVars, outsideEnrich>>

\* line 141: getPlayerSummaries has thrown; nothing catches it
EnrichRethrow ==
    /\ enrichPc = "players"
    /\ clientPc = "thrown"
    /\ enrichPc' = "thrown"
    /\ UNCHANGED <<gameReviews, enriched, clientVars, outsideEnrich>>

EnrichNext ==
    \/ GetReviewsWithPlayerData
    \/ \E body \in ReviewBodies : ReviewsResponse(body)
    \/ ReviewsFailure
    \/ GetPlayerSummaries
    \/ \E answer \in Answers : PlayersResponse(answer)
    \/ PlayersFailure
    \/ Enrich
    \/ EnrichRethrow

EnrichSpec == EnrichInit /\ [][EnrichNext]_vars

-----------------------------------------------------------------------------
(* The review-listing route: the state machine.  A GET invocation suspends  *)
(* at await fetch and at await response.json().                             *)

ReviewsInit ==
    /\ ReviewsStart
    /\ ProxyStart
    /\ AggregatorIdle
    /\ ClientIdle
    /\ EnrichStart
    /\ PlayersIdle
    /\ HookIdle
    /\ ParserIdle
    /\ scenario = "reviews"

\* lines 49-114: validation, the cache lookup, the upstream URL and the call
\* of fetch.  Requests are numbered in the order of their arrival.
ReviewsGet(r, query) ==
    /\ reviewHandler[r].pc = "idle"
    /\ r > 1 => reviewHandler[r - 1].pc # "idle"
    /\ LET arrived == [reviewHandler EXCEPT ![r].query = query, ![r].at = now]
       IN  IF ~ValidQuery(query)
           THEN /\ reviewHandler' = [arrived EXCEPT ![r].pc = "done"]
                /\ reviewResponse' = [reviewResponse EXCEPT ![r] =
                       JsonFailure(400, "Incorrect query parameters", "format")]
                /\ UNCHANGED reviewCache
           ELSE LET params == ValidatedData(query)
                    cacheKey == getCacheKey(params)
                    keyed == [arrived EXCEPT ![r].cacheKey = cacheKey]
                IN  IF cacheKey \in DOMAIN reviewCache /\ ReviewFresh(reviewCache[cacheKey], now)
                    THEN /\ reviewHandler' = [keyed EXCEPT ![r].pc = "done",
                                                           ![r].served = "cache"]
                         /\ reviewResponse' = [reviewResponse EXCEPT ![r] =
                                Json(reviewCache[cacheKey].data)]
                         /\ UNCHANGED reviewCache
                    ELSE /\ reviewCache' = IF cacheKey \in DOMAIN reviewCache
                                           THEN CacheDelete(reviewCache, cacheKey)
                                           ELSE reviewCache
                         /\ reviewHandler' = [keyed EXCEPT ![r].pc = "fetching",
                                                           ![r].steamUrl = SteamUrl(params),
                                                           ![r].fetches = @ + 1]
                         /\ UNCHANGED reviewResponse
    /\ UNCHANGED <<now, outsideReviews>>

\* lines 109-120, 137-146: the upstream answers before the timeout; a status
\* outside 2xx throws and the outer catch answers 500
ReviewsFetchResponse(r, status) ==
    /\ reviewHandler[r].pc = "fetching"
    /\ now - reviewHandler[r].at < STEAM_API_TIMEOUT_MS
    /\ IF Ok(status)
       THEN /\ reviewHandler' = [reviewHandler EXCEPT ![r].pc = "reading"]
            /\ UNCHANGED reviewResponse
       ELSE /\ reviewHandler' = [reviewHandler EXCEPT ![r].pc = "done"]
            /\ reviewResponse' = [reviewResponse EXCEPT ![r] =
                   Failed("Steam API responded with status: " \o ToString(status))]
    /\ UNCHANGED <<reviewCache, now, outsideReviews>>

\* lines 102-106, 128-134: the timer fires and the fetch rejects with an
\* AbortError
ReviewsFetchAbort(r) ==
    /\ reviewHandler[r].pc = "fetching"
    /\ now - reviewHandler[r].at >= STEAM_API_TIMEOUT_MS
    /\ reviewHandler' = [reviewHandler EXCEPT ![r].pc = "done"]
    /\ reviewResponse' = [reviewResponse EXCEPT ![r] =
           JsonFailure(504, "Steam API request timed out", Undef)]
    /\ UNCHANGED <<reviewCache, now, outsideReviews>>

\* lines 128-146: the fetch rejects for another reason
ReviewsFetchReject(r) ==
    /\ reviewHandler[r].pc = "fetching"
    /\ now - reviewHandler[r].at < STEAM_API_TIMEOUT_MS
    /\ reviewHandler' = [reviewHandler EXCEPT ![r].pc = "done"]
    /\ reviewResponse' = [reviewResponse EXCEPT ![r] = Failed("fetch failed")]
    /\ UNCHANGED <<reviewCache, now, outsideReviews>>

\* lines 122-127: the body has been parsed; it is cached and returned
ReviewsReadJson(r, data) ==
    /\ reviewHandler[r].pc = "reading"
    /\ reviewCache' = ReviewCacheSet(reviewCache, reviewHandler[r].cacheKey, data, now)
    /\ reviewHandler' = [reviewHandler EXCEPT ![r].pc = "done", ![r].served = "upstream",
                                              ![r].wrote = now]
    /\ reviewResponse' = [reviewResponse EXCEPT ![r] = Json(data)]
    /\ UNCHANGED <<now, outsideReviews>>

\* lines 122, 128-146: the body is not JSON
ReviewsReadFail(r) ==
    /\ reviewHandler[r].pc = "reading"
    /\ reviewHandler' = [reviewHandler EXCEPT ![r].pc = "done"]
    /\ reviewResponse' = [reviewResponse EXCEPT ![r] = Failed("Unexpected token")]
    /\ UNCHANGED <<reviewCache, now, outsideReviews>>

\* time passes
ReviewsTick ==
    /\ now < MaxRouteTicks * ReviewTickMs
    /\ now' = now + ReviewTickMs
    /\ UNCHANGED <<reviewsVars, outsideReviews>>

ReviewsNext ==
    \/ \E r \in Requests, q \in ReviewQueries : ReviewsGet(r, q)
    \/ \E r \in Requests, st \in ReviewStatuses : ReviewsFetchResponse(r, st)
    \/ \E r \in Requests : ReviewsFetchAbort(r)
    \/ \E r \in Requests : ReviewsFetchReject(r)
    \/ \E r \in Requests, d \in ReviewData : ReviewsReadJson(r, d)
    \/ \E r \in Requests : ReviewsReadFail(r)
    \/ ReviewsTick

ReviewsSpec == ReviewsInit /\ [][ReviewsNext]_vars

-----------------------------------------------------------------------------
(* The player-profile route: the state machine *)

PlayersInit ==
    /\ apiKey \in {Undef, "key"}
    /\ PlayersStart
    /\ ProxyStart
    /\ AggregatorIdle
    /\ ClientIdle
    /\ EnrichStart
    /\ ReviewsStart
    /\ HookIdle
    /\ ParserIdle
    /\ scenario = "players"

\* lines 51-114: validation, the ceiling on the number of ids, the cache
\* lookup, the key check and the call of fetch
PlayersGet(r, query) ==
    /\ playerHandler[r].pc = "idle"
    /\ r > 1 => playerHandler[r - 1].pc # "idle"
    /\ LET arrived == [playerHandler EXCEPT ![r].query = query, ![r].at = now]
           finish(res) ==
               /\ playerHandler' = [arrived EXCEPT ![r].pc = "done"]
               /\ playerResponse' = [playerResponse EXCEPT ![r] = res]
               /\ UNCHANGED playerCache
       IN  IF ~ValidPlayerQuery(query)
           THEN finish(PlayerJsonFailure(400, "Incorrect query parameters"))
           ELSE IF TooMany(query.steamids)
           THEN finish(PlayerJsonFailure(400, "You can request a maximum of 100 Steam IDs at a time"))
           ELSE IF /\ query.steamids \in DOMAIN playerCache
                   /\ PlayerFresh(playerCache[query.steamids], now)
           THEN /\ playerHandler' = [arrived EXCEPT ![r].pc = "done", ![r].served = "cache"]
                /\ playerResponse' = [playerResponse EXCEPT ![r] =
                       PlayerJson(playerCache[query.steamids].data)]
                /\ UNCHANGED playerCache
           ELSE /\ playerCache' = IF query.steamids \in DOMAIN playerCache
                                  THEN CacheDelete(playerCache, query.steamids)
                                  ELSE playerCache
                /\ IF ~Truthy(apiKey)
                   THEN /\ playerHandler' = [arrived EXCEPT ![r].pc = "done"]
                        /\ playerResponse' = [playerResponse EXCEPT ![r] =
                               PlayerJsonFailure(500, "API key is not configured on the server")]
                   ELSE /\ playerHandler' = [arrived EXCEPT ![r].pc = "fetching",
                                                            ![r].fetches = @ + 1]
                        /\ UNCHANGED playerResponse
    /\ UNCHANGED <<apiKey, now, outsidePlayers>>

\* lines 109-120, 137-143: the upstream answers before the timeout
PlayersFetchResponse(r, status) ==
    /\ playerHandler[r].pc = "fetching"
    /\ now - playerHandler[r].at < STEAM_API_TIMEOUT_MS
    /\ IF Ok(status)
       THEN /\ playerHandler' = [playerHandler EXCEPT ![r].pc = "reading"]
            /\ UNCHANGED playerResponse
       ELSE /\ playerHandler' = [playerHandler EXCEPT ![r].pc = "done"]
            /\ playerResponse' = [playerResponse EXCEPT ![r] =
                   PlayerJsonFailure(500, "Failed to retrieve player data from Steam API")]
    /\ UNCHANGED <<playerCache, apiKey, now, outsidePlayers>>

\* lines 102-106, 128-134: the timer fires and the fetch rejects with an
\* AbortError
PlayersFetchAbort(r) ==
    /\ playerHandler[r].pc = "fetching"
    /\ now - playerHandler[r].at >= STEAM_API_TIMEOUT_MS
    /\ playerHandler' = [playerHandler EXCEPT ![r].pc = "done"]
    /\ playerResponse' = [playerResponse EXCEPT ![r] =
           PlayerJsonFailure(504, "Steam API request has exceeded the waiting time")]
    /\ UNCHANGED <<playerCache, apiKey, now, outsidePlayers>>

\* lines 128-143: the fetch rejects for another reason
PlayersFetchReject(r) ==
    /\ playerHandler[r].pc = "fetching"
    /\ now - playerHandler[r].at < STEAM_API_TIMEOUT_MS
    /\ playerHandler' = [playerHandler EXCEPT ![r].pc = "done"]
    /\ playerResponse' = [playerResponse EXCEPT ![r] =
           PlayerJsonFailure(500, "Failed to retrieve player data from Steam API")]
    /\ UNCHANGED <<playerCache, apiKey, now, outsidePlayers>>

\* lines 122-127: the body has been parsed; it is cached and returned
PlayersReadJson(r, data) ==
    /\ playerHandler[r].pc = "reading"
    /\ playerCache' = PlayerCacheSet(playerCache, playerHandler[r].query.steamids, data, now)
    /\ playerResponse' = [playerResponse EXCEPT ![r] = PlayerJson(data)]
    /\ playerHandler' = [playerHandler EXCEPT ![r].pc = "done", ![r].served = "upstream",
                                              ![r].wrote = now]
    /\ UNCHANGED <<apiKey, now, outsidePlayers>>

\* lines 122, 128-143: the body is not JSON
PlayersReadFail(r) ==
    /\ playerHandler[r].pc = "reading"
    /\ playerHandler' = [playerHandler EXCEPT ![r].pc = "done"]
    /\ playerResponse' = [playerResponse EXCEPT ![r] =
           PlayerJsonFailure(500, "Failed to retrieve player data from Steam API")]
    /\ UNCHANGED <<playerCache, apiKey, now, outsidePlayers>>

\* time passes
PlayersTick ==
    /\ now < MaxRouteTicks * PlayerTickMs
    /\ now' = now + PlayerTickMs
    /\ UNCHANGED <<playersVars, outsidePlayers>>

PlayersNext ==
    \/ \E r \in Requests, q \in PlayerQueries : PlayersGet(r, q)
    \/ \E r \in Requests, st \in ReviewStatuses : PlayersFetchResponse(r, st)
    \/ \E r \in Requests : PlayersFetchAbort(r)
    \/ \E r \in Requests : PlayersFetchReject(r)
    \/ \E r \in Requests, d \in PlayerData : PlayersReadJson(r, d)
    \/ \E r \in Requests : PlayersReadFail(r)
    \/ PlayersTick

PlayersSpec == PlayersInit /\ [][PlayersNext]_vars

-----------------------------------------------------------------------------
(* The review hook: the state machine of one fetchReviews call.  The call   *)
(* suspends at each await of getReviewsWithPlayerData.                      *)

HookInit ==
    /\ hookAppId \in {Undef, "440"}
    /\ hookOptions \in HookOptionSets
    /\ hookReviews \in {<<>>, PreviousReviews}
    /\ HookStart
    /\ AggregatorIdle
    /\ ProxyStart
    /\ ClientIdle
    /\ EnrichStart
    /\ ReviewsStart
    /\ PlayersIdle
    /\ ParserIdle
    /\ scenario = "hook"

\* lines 33-42: without an app id the call returns; otherwise loading and
\* error are reset and the first page is requested
FetchReviews ==
    /\ hookPc = "called"
    /\ IF ~Truthy(hookAppId)
       THEN /\ hookPc' = "returned"
            /\ UNCHANGED <<pageRequests, hookLoading, hookError>>
       ELSE /\ hookLoading' = TRUE
            /\ hookError' = NoHookError
            /\ pageRequests' = <<FirstRequest(hookOptions)>>
            /\ hookPc' = "first"
    /\ UNCHANGED <<hookAppId, hookOptions, collected, hookCursor, loopIndex, hookReviews,
                   hookSummary, outsideHook>>

\* lines 44-87: the first page arrives; the loop is entered and either asks
\* for the next page or is skipped, and then the reviews are published
FirstPage(size, cursor) ==
    /\ hookPc = "first"
    /\ LET allReviews == PageOf(1, size)
       IN  /\ collected' = allReviews
           /\ hookCursor' = cursor
           /\ hookSummary' = SummaryOf(1)
           /\ loopIndex' = IF FetchAll(hookOptions) THEN loopIndex ELSE 1
           /\ IF Continues(hookOptions, 1, cursor, Len(allReviews))
              THEN /\ pageRequests' = Append(pageRequests, NextRequest(hookOptions, cursor))
                   /\ hookPc' = "next"
                   /\ UNCHANGED <<hookReviews, hookLoading>>
              ELSE /\ hookReviews' = allReviews
                   /\ hookLoading' = FALSE
                   /\ hookPc' = "returned"
                   /\ UNCHANGED pageRequests
    /\ UNCHANGED <<hookAppId, hookOptions, hookError, outsideHook>>

\* lines 52-87: a further page arrives.  An empty page ends the loop; any
\* other page is appended and the loop condition (after the hard limit in
\* fetchAll mode, after i++ otherwise) decides about the next request.
NextPage(size, cursor) ==
    /\ hookPc = "next"
    /\ cursor \in CursorsOf(Len(pageRequests))
    /\ LET nextPage == PageOf(Len(pageRequests), size)
           allReviews == AppendPage(collected, nextPage)
           again ==
               /\ size # 0
               /\ IF FetchAll(hookOptions)
                  THEN /\ ~(Len(allReviews) >= HARD_LIMIT)
                       /\ Continues(hookOptions, loopIndex, cursor, Len(allReviews))
                  ELSE Continues(hookOptions, loopIndex + 1, cursor, Len(allReviews))
       IN  /\ collected' = IF size = 0 THEN collected ELSE allReviews
           /\ hookCursor' = IF size = 0 THEN hookCursor ELSE cursor
           /\ loopIndex' = IF size = 0 \/ FetchAll(hookOptions) THEN loopIndex
                           ELSE loopIndex + 1
           /\ IF again
              THEN /\ pageRequests' = Append(pageRequests, NextRequest(hookOptions, cursor))
                   /\ UNCHANGED <<hookPc, hookReviews, hookLoading>>
              ELSE /\ hookReviews' = IF size = 0 THEN collected ELSE allReviews
                   /\ hookLoading' = FALSE
                   /\ hookPc' = "returned"
                   /\ UNCHANGED pageRequests
    /\ UNCHANGED <<hookAppId, hookOptions, hookSummary, hookError, outsideHook>>

\* lines 81-86: a page request rejects; the error is published and loading
\* is reset
PageFailure ==
    /\ hookPc \in {"first", "next"}
    /\ hookError' = "Error"
    /\ hookLoading' = FALSE
    /\ hookPc' = "returned"
    /\ UNCHANGED <<hookAppId, hookOptions, collected, hookCursor, loopIndex, pageRequests,
                   hookReviews, hookSummary, outsideHook>>

HookNext ==
    \/ FetchReviews
    \/ \E size \in PageSizes, c \in Cursors : FirstPage(size, c)
    \/ \E size \in PageSizes, c \in Cursors : NextPage(size, c)
    \/ PageFailure

HookSpec == HookInit /\ [][HookNext]_vars

-----------------------------------------------------------------------------
(* The review hook over several renders *)

\* the hook is mounted with no app id: the effect has reset the state
RendersInit ==
    /\ hookAppId = Undef
    /\ hookOptions \in RenderOptionSets
    /\ hookReviews = <<>>
    /\ HookStart
    /\ AggregatorIdle
    /\ ProxyStart
    /\ ClientIdle
    /\ EnrichStart
    /\ ReviewsStart
    /\ PlayersIdle
    /\ ParserIdle
    /\ scenario = "renders"

\* lines 89-104: the component renders with another app id and the effect
\* runs: it calls fetchReviews (lines 33-42) or resets reviews, summary, error
Rerender(appId) ==
    /\ appId # hookAppId
    /\ hookAppId' = appId
    /\ IF Truthy(appId)
       THEN /\ Len(calls) < MaxCalls
            /\ calls' = Append(calls, NewCall(appId))
            /\ hookLoading' = TRUE
            /\ hookError' = NoHookError
            /\ UNCHANGED <<hookReviews, hookSummary>>
       ELSE /\ hookReviews' = <<>>
            /\ hookSummary' = NoSummary
            /\ hookError' = NoHookError
            /\ UNCHANGED <<calls, hookLoading>>
    /\ UNCHANGED <<hookOptions, hookPc, collected, hookCursor, loopIndex, pageRequests,
                   outsideRenders>>

\* lines 44-87 in call c: its first page arrives
CallFirstPage(c, size, cursor) ==
    /\ c \in DOMAIN calls
    /\ calls[c].pc = "first"
    /\ LET allReviews == PageFor(calls[c].appId, 1, size)
           local == [calls[c] EXCEPT !.allReviews = allReviews, !.cursor = cursor,
                                     !.i = IF FetchAll(hookOptions) THEN @ ELSE 1]
       IN  /\ hookSummary' = SummaryFor(calls[c].appId)
           /\ IF Continues(hookOptions, 1, cursor, Len(allReviews))
              THEN /\ calls' = [calls EXCEPT ![c] = [local EXCEPT !.pc = "next",
                                                                  !.requested = @ + 1]]
                   /\ UNCHANGED <<hookReviews, hookLoading>>
              ELSE /\ calls' = [calls EXCEPT ![c] = [local EXCEPT !.pc = "returned"]]
                   /\ hookReviews' = allReviews
                   /\ hookLoading' = FALSE
    /\ UNCHANGED <<hookAppId, hookOptions, hookError, hookPc, collected, hookCursor,
                   loopIndex, pageRequests, outsideRenders>>

\* lines 52-87 in call c: a further page arrives
CallNextPage(c, size, cursor) ==
    /\ c \in DOMAIN calls
    /\ calls[c].pc = "next"
    /\ LET nextPage == PageFor(calls[c].appId, calls[c].requested, size)
           allReviews == AppendPage(calls[c].allReviews, nextPage)
           i == IF size = 0 \/ FetchAll(hookOptions) THEN calls[c].i ELSE calls[c].i + 1
           again ==
               /\ size # 0
               /\ FetchAll(hookOptions) => ~(Len(allReviews) >= HARD_LIMIT)
               /\ Continues(hookOptions, i, cursor, Len(allReviews))
           local == [calls[c] EXCEPT
                        !.allReviews = IF size = 0 THEN @ ELSE allReviews,
                        !.cursor = IF size = 0 THEN @ ELSE cursor,
                        !.i = i]
       IN  IF again
           THEN /\ calls' = [calls EXCEPT ![c] = [local EXCEPT !.requested = @ + 1]]
                /\ UNCHANGED <<hookReviews, hookLoading>>
           ELSE /\ calls' = [calls EXCEPT ![c] = [local EXCEPT !.pc = "returned"]]
                /\ hookReviews' = local.allReviews
                /\ hookLoading' = FALSE
    /\ UNCHANGED <<hookAppId, hookOptions, hookSummary, hookError, hookPc, collected,
                   hookCursor, loopIndex, pageRequests, outsideRenders>>

\* lines 81-86 in call c: a page request rejects
CallFailure(c) ==
    /\ c \in DOMAIN calls
    /\ InFlight(calls[c])
    /\ calls' = [calls EXCEPT ![c].pc = "returned"]
    /\ hookError' = "Error"
    /\ hookLoading' = FALSE
    /\ UNCHANGED <<hookAppId, hookOptions, hookReviews, hookSummary, hookPc, collected,
                   hookCursor, loopIndex, pageRequests, outsideRenders>>

RendersNext ==
    \/ \E appId \in AppIds \cup {Undef} : Rerender(appId)
    \/ \E c \in CallIds, size \in RenderPageSizes, cursor \in RenderCursors :
          CallFirstPage(c, size, cursor)
    \/ \E c \in CallIds, size \in RenderPageSizes, cursor \in RenderCursors :
          CallNextPage(c, size, cursor)
    \/ \E c \in CallIds : CallFailure(c)

RendersSpec == RendersInit /\ [][RendersNext]_vars

-----------------------------------------------------------------------------
(* The profile requests: the client that issues them and the route that    *)
(* answers them, one per run                                                *)

ProfilesInit == ClientInit \/ PlayersInit

ProfilesNext ==
    \/ scenario = "client" /\ ClientNext
    \/ scenario = "players" /\ PlayersNext

ProfilesSpec == ProfilesInit /\ [][ProfilesNext]_vars

-----------------------------------------------------------------------------
(* parseReviewPage on the markup of one page *)

ParserInit ==
    /\ pageHtml \in Markups
    /\ pagination = NoPagination
    /\ AggregatorIdle
    /\ ProxyStart
    /\ ClientIdle
    /\ EnrichStart
    /\ ReviewsStart
    /\ PlayersIdle
    /\ HookIdle
    /\ scenario = "parser"

\* lines 331-360, 438: the page is parsed and the pagination returned
ParseReviewPage ==
    /\ pagination = NoPagination
    /\ pagination' = Pagination(pageHtml)
    /\ UNCHANGED <<pageHtml, outsideParser>>

ParserNext == ParseReviewPage

ParserSpec == ParserInit /\ [][ParserNext]_vars

-----------------------------------------------------------------------------
(* The parts that fetch, one per run *)

CoreInit == Init \/ ProxyInit \/ ClientInit \/ ReviewsInit \/ PlayersInit

CoreNext ==
    \/ scenario = "aggregation" /\ Next
    \/ scenario = "proxy" /\ ProxyNext
    \/ scenario = "client" /\ ClientNext
    \/ scenario = "reviews" /\ ReviewsNext
    \/ scenario = "players" /\ PlayersNext

CoreSpec == CoreInit /\ [][CoreNext]_vars

-----------------------------------------------------------------------------
(* Vocabulary of the properties, stated from the inputs and not from the    *)
(* run's own bookkeeping                                                    *)

SeedIds == {initialReviews[i].author.steamid : i \in DOMAIN initialReviews}

PositiveIds ==
    {initialReviews[i].author.steamid : i \in {j \in DOMAIN initialReviews : initialReviews[j].voted_up}}

\* the author stub of the first positively-recommended seed review of author a
FirstPositiveStub(a) ==
    LET idx == {i \in DOMAIN initialReviews :
                    initialReviews[i].voted_up /\ initialReviews[i].author.steamid = a}
        first == CHOOSE i \in idx : \A j \in idx : i <= j
    IN  initialReviews[first].author

Unusable(url) == url \in {Undef, "", "#"}

Fetched(a) == \E p \in Pages : fetchCount[a][p] > 0

\* the retrieval of reviewer a threw: one of its requests failed
Threw(a) == \E p \in Pages : page[a][p] = "failed"

Resolved == pc = "resolved"

\* the call has returned or some continuation is still to run: it never hangs
NeverStuck == Resolved \/ ENABLED Next

\* the pages parseUserReviews reads from the feed of url
PagesRead(url) == 1..Max(1, Min(feed[url].totalPages, maxPagesPerUser))

\* positions (page, index) of the feed of url that qualify for the review map
Qualifying(url) ==
    {pi \in UNION {{<<p, i>> : i \in DOMAIN feed[url].pages[p]} : p \in PagesRead(url)} :
        LET b == feed[url].pages[pi[1]][pi[2]]
        IN  /\ b.recommendationType = "positive"
            /\ b.gameId # ""
            /\ ~(targetAppId \notin {Undef, ""} /\ b.gameId = targetAppId)}

Before(x, y) == x[1] < y[1] \/ (x[1] = y[1] /\ x[2] <= y[2])

\* the last qualifying position of title g in parse order
LastOf(url, g) ==
    LET S == {pi \in Qualifying(url) : feed[url].pages[pi[1]][pi[2]].gameId = g}
    IN  CHOOSE x \in S : \A y \in S : Before(y, x)

\* what a reviewer's aggregate holds after a successful retrieval, from that
\* reviewer's own stub and feed alone
ExpectedAggregate(a) ==
    LET stub == FirstPositiveStub(a)
        url == stub.profileurl
        titles == {feed[url].pages[pi[1]][pi[2]].gameId : pi \in Qualifying(url)}
    IN  [profile |-> [steamId |-> a, profileurl |-> url],
         reviews |-> [g \in titles |->
                        [gameId |-> g, recommendation |-> "positive",
                         reviewUrl |-> LastOf(url, g)]],
         totalPages |-> feed[url].totalPages,
         error |-> Undef]

\* the aggregate of a reviewer nothing was retrieved for
ExpectedEmpty(a) ==
    [profile |-> [steamId |-> a, profileurl |-> FirstPositiveStub(a).profileurl],
     reviews |-> EmptyMap,
     totalPages |-> 0,
     error |-> Undef]

HasReviews(k) == k \in DOMAIN reviewers /\ DOMAIN reviewers[k].reviews # {}

-----------------------------------------------------------------------------
(* C1: the call never rejects and never hangs; once it has resolved, every  *)
(* reviewer whose retrieval threw carries a non-empty error string, and     *)
(* every other reviewer holds exactly the aggregate its own stub and feed   *)
(* determine, whatever happened to the others.                              *)
C1_FailureIsolation ==
    /\ pc \in {"called", "mapping", "awaiting", "resolved"}
    /\ NeverStuck
    /\ Resolved =>
         \A a \in PositiveIds :
            /\ a \in DOMAIN reviewers
            /\ IF Unusable(FirstPositiveStub(a).profileurl)
               THEN reviewers[a] = [ExpectedEmpty(a) EXCEPT !.error = "Profile URL not available"]
               ELSE IF Threw(a)
               THEN /\ reviewers[a].error \notin {Undef, ""}
                    /\ [reviewers[a] EXCEPT !.error = Undef] = ExpectedEmpty(a)
               ELSE reviewers[a] = ExpectedAggregate(a)

\* three reviewers, the second one's retrieval threw, the other two hold reviews
C1_Witness ==
    /\ Resolved
    /\ Len(authorList) = 3
    /\ Threw(authorList[2].steamid)
    /\ reviewers[authorList[2].steamid].error # Undef
    /\ HasReviews(authorList[1].steamid) /\ ~Threw(authorList[1].steamid)
    /\ HasReviews(authorList[3].steamid) /\ ~Threw(authorList[3].steamid)

(* C2: onProgress is called once by every task that ends, the k-th call     *)
(* carrying (k, N) with N the number of unique reviewers, and all N calls   *)
(* have been made when the call resolves.                                   *)
C2_ProgressCounts ==
    LET N == Cardinality(PositiveIds)
        ended == {a \in Authors : task[a] = "fulfilled"}
    IN  /\ progress = [k \in 1..Cardinality(ended) |-> <<k, N>>]
        /\ \A a \in Authors : reported[a] = IF a \in ended THEN 1 ELSE 0
        /\ Resolved => Len(progress) = N /\ (N > 0 => progress[N] = <<N, N>>)

\* three reviewers: one succeeded, one failed, one had no profile URL
C2_Witness ==
    /\ Resolved
    /\ Len(progress) = 3
    /\ \E a, b, c \in PositiveIds :
        /\ Fetched(a) /\ ~Threw(a)
        /\ Threw(b)
        /\ Unusable(FirstPositiveStub(c).profileurl)

(* C3 as stated: the mapping has one entry per distinct author id of the    *)
(* seed list.                                                               *)
C3_Original ==
    Resolved => Cardinality(DOMAIN reviewers) = Cardinality(SeedIds)

(* C3 amended: the mapping has exactly one entry per distinct author id of  *)
(* the positively-recommended seed reviews, however many reviews each wrote *)
C3_OneEntryPerPositiveAuthor ==
    Resolved => /\ DOMAIN reviewers = PositiveIds
                /\ Cardinality(DOMAIN reviewers) = Cardinality(PositiveIds)

\* three positive seed reviews written by two authors
C3_Witness ==
    /\ Resolved
    /\ Len(initialReviews) = 3
    /\ \A i \in DOMAIN initialReviews : initialReviews[i].voted_up
    /\ Cardinality(SeedIds) = 2
    /\ Cardinality(DOMAIN reviewers) = 2

(* C4: an author whose seed reviews are all negative never gets an entry,   *)
(* never has a task or a feed request, and is not counted in the total      *)
(* passed to onProgress.                                                    *)
C4_NegativeNeverSeeds ==
    /\ \A a \in SeedIds \ PositiveIds :
        /\ a \notin DOMAIN reviewers
        /\ task[a] = "none"
        /\ ~Fetched(a)
        /\ reported[a] = 0
    /\ \A k \in DOMAIN progress : progress[k][2] = Cardinality(PositiveIds)
    /\ pc # "called" => {authorList[i].steamid : i \in DOMAIN authorList} = PositiveIds

\* a run with a negative-only author beside a reviewer that fetched and reported
C4_Witness ==
    /\ Resolved
    /\ SeedIds \ PositiveIds # {}
    /\ \E a \in PositiveIds : Fetched(a)
    /\ Len(progress) > 0

(* C5: a reviewer whose seeding stub has no usable profile URL never has a  *)
(* feed request issued; from the moment its task ran it holds the error     *)
(* "Profile URL not available" and an empty review map, and its task has    *)
(* reported progress exactly once.                                          *)
C5_NoProfileShortCircuit ==
    \A a \in PositiveIds :
        Unusable(FirstPositiveStub(a).profileurl) =>
            /\ ~Fetched(a)
            /\ fetchUrl[a] = Undef
            /\ task[a] \in {"none", "fulfilled"}
            /\ task[a] = "fulfilled" =>
                /\ reviewers[a].error = "Profile URL not available"
                /\ DOMAIN reviewers[a].reviews = {}
                /\ reported[a] = 1
            /\ Resolved => task[a] = "fulfilled"

\* reviewers without a URL and with "#" beside one that was fetched
C5_Witness ==
    /\ Resolved
    /\ \E a, b, c \in PositiveIds :
        /\ FirstPositiveStub(a).profileurl = Undef
        /\ FirstPositiveStub(b).profileurl = "#"
        /\ Fetched(c)
        /\ reviewers[a].error = "Profile URL not available"
        /\ reviewers[b].error = "Profile URL not available"

\* positions of the positive boxes of title g on the pages ps of the feed of url
PositivePositions(url, g, ps) ==
    {pi \in UNION {{<<p, i>> : i \in DOMAIN feed[url].pages[p]} : p \in ps} :
        LET b == feed[url].pages[pi[1]][pi[2]]
        IN  b.recommendationType = "positive" /\ b.gameId = g}

LastPosition(S) == CHOOSE x \in S : \A y \in S : Before(y, x)

\* the pages of reviewer a whose responses arrived and were parsed
PagesFetched(a) == {p \in Pages : page[a][p] = "ok"}

\* every request of the retrieval of reviewer a succeeded
Succeeded(a) ==
    /\ fetchUrl[a] \in DOMAIN feed
    /\ \A p \in PagesRead(fetchUrl[a]) : page[a][p] = "ok"

(* C6 as stated: once a reviewer's task has ended, a title with several     *)
(* positive entries on the fetched pages has exactly one entry in the map,  *)
(* the last one in parse order.                                             *)
C6_Original ==
    \A a \in Authors :
        (task[a] = "fulfilled" /\ Fetched(a) /\ fetchUrl[a] \in DOMAIN feed) =>
            \A g \in GameIds :
                LET S == PositivePositions(fetchUrl[a], g, PagesFetched(a))
                IN  Cardinality(S) >= 2 =>
                        /\ g \in DOMAIN reviewers[a].reviews
                        /\ reviewers[a].reviews[g].reviewUrl = LastPosition(S)

(* C6 amended: once a reviewer's task has ended after a retrieval in which  *)
(* every request succeeded, a non-empty title other than targetAppId with   *)
(* several positive entries on the fetched pages has exactly one entry in   *)
(* the map, the last one in parse order.                                    *)
C6_LastParsedWins ==
    \A a \in Authors :
        (task[a] = "fulfilled" /\ Fetched(a) /\ Succeeded(a)) =>
            \A g \in GameIds :
                LET S == PositivePositions(fetchUrl[a], g, PagesFetched(a))
                IN  (Cardinality(S) >= 2 /\ g # "" /\ ~(Truthy(targetAppId) /\ g = targetAppId)) =>
                        /\ g \in DOMAIN reviewers[a].reviews
                        /\ reviewers[a].reviews[g] =
                             [gameId |-> g, recommendation |-> "positive",
                              reviewUrl |-> LastPosition(S)]

\* a title reviewed positively on two different pages
C6_Witness ==
    \E a \in Authors, g \in GameIds :
        /\ task[a] = "fulfilled" /\ Fetched(a) /\ Succeeded(a)
        /\ g \in DOMAIN reviewers[a].reviews
        /\ LET S == PositivePositions(fetchUrl[a], g, PagesFetched(a))
           IN  /\ \E x, y \in S : x[1] < y[1]
               /\ reviewers[a].reviews[g].reviewUrl = LastPosition(S)

(* C7: in every state every entry of every review map is positive, stored  *)
(* under its own non-empty gameId, and is not the title named by            *)
(* targetAppId.                                                             *)
C7_OnlyQualifyingEntries ==
    \A k \in DOMAIN reviewers :
        \A g \in DOMAIN reviewers[k].reviews :
            /\ reviewers[k].reviews[g].recommendation = "positive"
            /\ reviewers[k].reviews[g].gameId = g
            /\ g # ""
            /\ Truthy(targetAppId) => g # targetAppId

\* a feed with a negative box, a box without title and a box of the excluded
\* title was merged into a map that holds another title
C7_Witness ==
    /\ Truthy(targetAppId)
    /\ \E a \in Authors :
        /\ task[a] = "fulfilled" /\ Succeeded(a) /\ HasReviews(a)
        /\ \E p1, p2, p3 \in PagesFetched(a) :
            /\ \E i \in DOMAIN feed[fetchUrl[a]].pages[p1] :
                 feed[fetchUrl[a]].pages[p1][i].recommendationType = "negative"
            /\ \E i \in DOMAIN feed[fetchUrl[a]].pages[p2] :
                 feed[fetchUrl[a]].pages[p2][i].gameId = ""
            /\ \E i \in DOMAIN feed[fetchUrl[a]].pages[p3] :
                 feed[fetchUrl[a]].pages[p3][i] = Box(targetAppId, "positive")

(* C8: when no seed review is positively recommended the call issues no     *)
(* request, never invokes onProgress, never hangs, and holds the empty      *)
(* reviewer mapping in every state, so it resolves to { reviewers: {} }.    *)
C8_NothingToAggregate ==
    PositiveIds = {} =>
        /\ DOMAIN reviewers = {}
        /\ progress = <<>>
        /\ processedCount = 0
        /\ \A a \in Authors : ~Fetched(a) /\ task[a] = "none"
        /\ NeverStuck

\* the call resolved for a seed list of negative reviews only
C8_Witness ==
    /\ Resolved
    /\ Len(initialReviews) >= 2
    /\ PositiveIds = {}
    /\ DOMAIN reviewers = {}

(* C9: the profile snapshot of a reviewer and the URL its requests are      *)
(* built from are those of the first positively-recommended seed review of  *)
(* that author id.                                                          *)
C9_FirstSeenStubWins ==
    \A a \in PositiveIds :
        task[a] # "none" =>
            /\ reviewers[a].profile =
                 [steamId |-> a, profileurl |-> FirstPositiveStub(a).profileurl]
            /\ Fetched(a) => fetchUrl[a] = FirstPositiveStub(a).profileurl
            /\ Fetched(a) <=> ~Unusable(FirstPositiveStub(a).profileurl)

\* an author with two positive seed reviews whose stubs name different URLs
C9_Witness ==
    /\ Resolved
    /\ \E i, j \in DOMAIN initialReviews :
        /\ i < j
        /\ initialReviews[i].voted_up /\ initialReviews[j].voted_up
        /\ initialReviews[i].author.steamid = initialReviews[j].author.steamid
        /\ initialReviews[i].author.profileurl = "u1"
        /\ initialReviews[j].author.profileurl = "u2"
        /\ fetchUrl[initialReviews[i].author.steamid] = "u1"

\* the reviews of pages 1..n of the feed of url, page by page in document order
RECURSIVE Offset(_, _)
Offset(url, p) == IF p <= 1 THEN 0 ELSE Offset(url, p - 1) + Len(feed[url].pages[p - 1])

InParseOrder(url) ==
    LET n == Max(1, Min(feed[url].totalPages, maxPagesPerUser))
    IN  [k \in 1..Offset(url, n + 1) |->
            LET p == CHOOSE q \in 1..n : Offset(url, q) < k /\ k <= Offset(url, q + 1)
                i == k - Offset(url, p)
            IN  [gameId |-> feed[url].pages[p][i].gameId,
                 recommendationType |-> feed[url].pages[p][i].recommendationType,
                 reviewUrl |-> <<p, i>>]]

(* C10: a request for a page 2..N exists only after the page-1 response was *)
(* received and parsed, and parseUserReviews has returned only if every     *)
(* page 1..N has completed, its result holding all their entries.           *)
C10_FirstPageFirst ==
    \A a \in Authors :
        /\ \A p \in Pages : (p >= 2 /\ (fetchCount[a][p] > 0 \/ page[a][p] # "none")) => page[a][1] = "ok"
        /\ parse[a].state = "fulfilled" =>
            /\ Succeeded(a)
            /\ parse[a].reviews = InParseOrder(fetchUrl[a])

\* page 3 is back while page 2 is still outstanding
C10_Witness ==
    \E a \in Authors :
        /\ page[a][1] = "ok" /\ page[a][2] = "inflight" /\ page[a][3] = "ok"
        /\ parse[a].state = "pending"

\* feed requests issued for reviewer a
RequestCount(a) ==
    LET counts == [p \in Pages |-> fetchCount[a][p]]
        Sum[n \in 0..MaxTotalPages] == IF n = 0 THEN 0 ELSE Sum[n - 1] + counts[n]
    IN  Sum[MaxTotalPages]

(* C11: for one reviewer no page is requested twice; page 1 is requested    *)
(* once; after page 1 reported totalPages, exactly the pages 2..min(        *)
(* totalPages, maxPages) are requested besides it, so the reviewer's        *)
(* requests number max(1, min(totalPages, maxPages)); a failed page 1 is    *)
(* followed by no further request.                                          *)
C11_RequestCeiling ==
    \A a \in Authors :
        /\ \A p \in Pages : fetchCount[a][p] <= 1
        /\ task[a] = "pending" => fetchCount[a][1] = 1
        /\ page[a][1] \in {"none", "inflight", "failed"} =>
              \A p \in Pages : p >= 2 => fetchCount[a][p] = 0
        /\ page[a][1] = "ok" =>
              LET n == Min(feed[fetchUrl[a]].totalPages, maxPagesPerUser)
              IN  /\ \A p \in Pages : fetchCount[a][p] = IF p = 1 \/ p <= n THEN 1 ELSE 0
                  /\ RequestCount(a) = Max(1, n)

\* the feed reports more pages than maxPages allows: pages 1..maxPages were
\* requested and answered, the next page never
C11_Witness ==
    \E a \in Authors :
        /\ task[a] = "fulfilled" /\ page[a][1] = "ok"
        /\ maxPagesPerUser = 2
        /\ feed[fetchUrl[a]].totalPages = 3
        /\ fetchCount[a] = [p \in Pages |-> IF p <= 2 THEN 1 ELSE 0]

(* C12: an aggregate's totalPages is set only by a retrieval in which every *)
(* request succeeded; when the retrieval threw, the aggregate carries the   *)
(* message of the Error that was thrown, its totalPages is still 0 and its  *)
(* review map is as it was when the failure happened: empty, since nothing  *)
(* is merged before parseUserReviews returns.                               *)
C12_TotalPagesOnlyOnSuccess ==
    \A a \in DOMAIN reviewers :
        /\ reviewers[a].totalPages # 0 =>
              /\ task[a] = "fulfilled" /\ Succeeded(a)
              /\ reviewers[a].totalPages = feed[fetchUrl[a]].totalPages
              /\ reviewers[a].error = Undef
        /\ (task[a] = "fulfilled" /\ Threw(a)) =>
              /\ reviewers[a].error = parse[a].error.message
              /\ reviewers[a].error \in {Thrown(p).message : p \in {q \in Pages : page[a][q] = "failed"}}
              /\ reviewers[a].totalPages = 0
              /\ reviewers[a].reviews = EmptyMap
        /\ task[a] = "pending" => reviewers[a] = ExpectedEmpty(a)

\* page 1 listed reviews and a later page failed: nothing was merged
C12_Witness ==
    \E a \in Authors :
        /\ task[a] = "fulfilled"
        /\ page[a][1] = "ok" /\ page[a][2] = "failed"
        /\ Len(parse[a].reviews) > 0
        /\ reviewers[a].error = "Failed to fetch page 2: 502 Bad Gateway"
        /\ reviewers[a].totalPages = 0

\* the aggregate stored under key k is written by this step
Written(k) ==
    /\ k \in DOMAIN reviewers'
    /\ k \notin DOMAIN reviewers \/ reviewers'[k] # reviewers[k]

(* C13: a reviewer's aggregate exists from the first run of its own task    *)
(* on; every step that inserts or changes the aggregate of reviewer k is a  *)
(* step of the task of k (the insertion its first) and of no other task,    *)
(* and writes no other reviewer's aggregate.                                *)
C13_OwnTaskWrites ==
    /\ [](\A a \in Authors : a \in DOMAIN reviewers <=> task[a] # "none")
    /\ [][\A k \in Authors :
            Written(k) =>
                /\ task'[k] # task[k]
                /\ \A j \in Authors \ {k} : task'[j] = task[j] /\ ~Written(j)
                /\ k \notin DOMAIN reviewers <=> task[k] = "none"]_vars

\* one task has merged its reviews while another is still suspended
C13_Witness ==
    \E a, b \in Authors :
        /\ a # b
        /\ task[a] = "fulfilled" /\ HasReviews(a)
        /\ task[b] = "pending" /\ page[b][1] = "ok"

(* C14: once the call has returned, the mapping it returned is never        *)
(* changed and onProgress is never called again, whatever responses still   *)
(* arrive.                                                                  *)
C14_ImmutableAfterResolve ==
    [][Resolved =>
          /\ reviewers' = reviewers
          /\ keyOrder' = keyOrder
          /\ progress' = progress
          /\ processedCount' = processedCount
          /\ task' = task
          /\ pc' = pc]_vars

\* a page failed, the reviewer's task ended and the call returned while
\* another page of that reviewer was in flight; that page has since arrived
C14_Witness ==
    /\ Resolved
    /\ lateResponses > 0
    /\ \E a \in Authors :
        /\ page[a][2] = "failed" /\ page[a][3] = "ok"
        /\ reviewers[a].error = "Failed to fetch page 2: 502 Bad Gateway"

-----------------------------------------------------------------------------
(* Properties of the content retrieval gateway *)

\* request r arrives in this step
Arrives(r) == handler[r].pc = "idle" /\ handler'[r].pc # "idle"

\* request r returns its response in this step
Returns(r) == handler[r].pc # "done" /\ handler'[r].pc = "done"

\* the entry stored under key k is set in this step
EntryWritten(k) ==
    /\ k \in DOMAIN contentCache'
    /\ k \notin DOMAIN contentCache \/ contentCache'[k] # contentCache[k]

Age(k) == now - contentCache[k].timestamp

(* C15: a request without a url parameter is answered 400 and one whose url *)
(* does not start with https://steamcommunity.com/ is answered 403; neither *)
(* calls out, neither changes the cache, and every key of the cache starts  *)
(* with the trusted prefix.                                                 *)
C15_UntrustedRejected ==
    /\ [](/\ DOMAIN contentCache \subseteq TrustedUrls
          /\ \A r \in Requests :
                (handler[r].pc # "idle" /\ handler[r].targetUrl \notin TrustedUrls) =>
                    /\ handler[r].pc = "done"
                    /\ ~handler[r].calledOut
                    /\ response[r].status =
                         IF handler[r].targetUrl \in {Undef, ""} THEN 400 ELSE 403
                    /\ response[r].body = Undef
                    /\ response[r].error # Undef)
    /\ [][\A r \in Requests :
            (Arrives(r) /\ handler'[r].targetUrl \notin TrustedUrls) =>
                contentCache' = contentCache]_vars

\* a look-alike host was refused while the cache held a trusted page
C15_Witness ==
    /\ DOMAIN contentCache # {}
    /\ \E r \in Requests :
        /\ handler[r].targetUrl = "https://steamcommunity.com.evil.example/x"
        /\ response[r].status = 403
        /\ ~handler[r].calledOut

(* C16 as stated: two calls for the same URL that arrive less than the      *)
(* cache lifetime apart make exactly one outbound call between them.        *)
C16_Original ==
    \A r1, r2 \in Requests :
        (/\ r1 < r2
         /\ handler[r1].pc # "idle" /\ handler[r2].pc # "idle"
         /\ handler[r1].targetUrl \in TrustedUrls
         /\ handler[r2].targetUrl = handler[r1].targetUrl
         /\ handler[r2].at - handler[r1].at < CACHE_TTL_MS) =>
            Cardinality({r \in {r1, r2} : handler[r].calledOut}) = 1

(* C16 amended: a call that arrives after an earlier call for the same URL  *)
(* has returned the upstream content (200, X-Cache: MISS), less than the    *)
(* cache lifetime after that content was cached, is served from the cache:  *)
(* the two calls make exactly one outbound call, the first one's.           *)
C16_SecondCallServedFromCache ==
    [][\A r1, r2 \in Requests :
          (/\ r1 # r2
           /\ Arrives(r2)
           /\ handler[r1].pc = "done"
           /\ response[r1].status = 200 /\ response[r1].xcache = "MISS"
           /\ handler'[r2].targetUrl = handler[r1].targetUrl
           /\ now - handler[r1].wrote < CACHE_TTL_MS) =>
              /\ Returns(r2)
              /\ response'[r2].status = 200 /\ response'[r2].xcache = "HIT"
              /\ Cardinality({r \in {r1, r2} : handler'[r].calledOut}) = 1
              /\ handler'[r1].calledOut]_vars

\* the second call came two ticks after the first one's content was cached
C16_Witness ==
    \E r1, r2 \in Requests :
        /\ response[r1].xcache = "MISS" /\ response[r2].xcache = "HIT"
        /\ handler[r2].targetUrl = handler[r1].targetUrl
        /\ handler[r2].at - handler[r1].wrote = 2 * TickMs
        /\ ~handler[r2].calledOut

(* C17: a lookup that finds an entry younger than the lifetime returns its  *)
(* content tagged HIT, without calling out and without touching the cache;  *)
(* any other lookup of a trusted URL leaves no entry under its key and      *)
(* calls out; HIT is returned by a lookup only; and an entry disappears     *)
(* only in a lookup of its own key that finds it as old as the lifetime or  *)
(* older.                                                                   *)
C17_NoStaleContent ==
    [][/\ \A r \in Requests :
            (Arrives(r) /\ handler'[r].targetUrl \in TrustedUrls) =>
                LET u == handler'[r].targetUrl
                IN  IF u \in DOMAIN contentCache /\ Age(u) < CACHE_TTL_MS
                    THEN /\ Returns(r)
                         /\ response'[r] = [status |-> 200, xcache |-> "HIT",
                                            body |-> contentCache[u].content, error |-> Undef]
                         /\ ~handler'[r].calledOut
                         /\ contentCache' = contentCache
                    ELSE /\ handler'[r].pc = "fetching"
                         /\ handler'[r].calledOut
                         /\ response'[r] = NoResponse
                         /\ contentCache' = [k \in DOMAIN contentCache \ {u} |-> contentCache[k]]
       /\ \A r \in Requests :
            (response'[r].xcache = "HIT" /\ response[r].xcache # "HIT") => Arrives(r)
       /\ \A k \in DOMAIN contentCache \ DOMAIN contentCache' :
            /\ Age(k) >= CACHE_TTL_MS
            /\ \E r \in Requests : Arrives(r) /\ handler'[r].targetUrl = k]_vars

\* a lookup exactly one lifetime after the entry was written removed it and
\* went to the network
C17_Witness ==
    \E r1, r2 \in Requests :
        /\ response[r1].xcache = "MISS"
        /\ handler[r2].targetUrl = handler[r1].targetUrl
        /\ handler[r2].at - handler[r1].wrote = CACHE_TTL_MS
        /\ handler[r2].pc = "fetching"
        /\ handler[r2].targetUrl \notin DOMAIN contentCache

\* what the upstream did to the outbound call of a request
UpstreamClass(up) ==
    CASE up.name = "response" /\ up.status \in 200..299 -> "content"
      [] up.name = "response" -> "status"
      [] up.name = "AbortError" -> "timeout"
      [] up.name = "TypeError" -> "failure"
      [] OTHER -> "pending"

(* C18: a request that called out returns nothing until its call ended and  *)
(* then exactly the answer of its case: 200 tagged MISS with the body the   *)
(* upstream sent, the upstream's non-2xx status with an error, 504 with the *)
(* timeout error after an abort, 500 after any other failure; only the      *)
(* first carries a body, and answers of different cases differ.             *)
C18_FourOutcomes ==
    /\ \A r \in Requests :
        handler[r].calledOut =>
            LET up == handler[r].upstream
                res == response[r]
                class == UpstreamClass(up)
            IN  /\ handler[r].pc # "done" => res = NoResponse
                /\ handler[r].pc = "done" =>
                    /\ class \in {"content", "status", "timeout", "failure"}
                    /\ class = "content" =>
                         res.status = 200 /\ res.xcache = "MISS" /\ res.body \in Bodies
                                          /\ res.error = Undef
                    /\ class = "status" =>
                         res.status = up.status /\ res.status \notin 200..299
                                                /\ res.body = Undef /\ res.error # Undef
                    /\ class = "timeout" =>
                         res.status = 504 /\ res.error = "Request to Steam timed out"
                                          /\ res.body = Undef
                    /\ class = "failure" =>
                         res.status = 500 /\ res.body = Undef /\ res.error # Undef
    /\ \A r1, r2 \in Requests :
        (/\ handler[r1].pc = "done" /\ handler[r1].calledOut
         /\ handler[r2].pc = "done" /\ handler[r2].calledOut
         /\ UpstreamClass(handler[r1].upstream) # UpstreamClass(handler[r2].upstream)) =>
            response[r1] # response[r2]

\* one call timed out and another was answered 504 by the upstream itself
C18_Witness ==
    \E r1, r2 \in Requests :
        /\ handler[r1].pc = "done" /\ handler[r1].upstream.name = "AbortError"
        /\ handler[r2].pc = "done" /\ handler[r2].upstream = [name |-> "response", status |-> 504]
        /\ response[r1].status = 504 /\ response[r2].status = 504

(* C19: a request that returns 200 tagged MISS for URL u sets the entry of  *)
(* u to its body and the time of the write and leaves every other entry as  *)
(* it was; a request that returns anything else writes no entry; and no     *)
(* entry is written in any other way.                                       *)
C19_WriteOnSuccessOnly ==
    [][/\ \A r \in Requests :
            Returns(r) =>
                IF response'[r].status = 200 /\ response'[r].xcache = "MISS"
                THEN LET u == handler[r].targetUrl
                     IN  contentCache' =
                            [k \in DOMAIN contentCache \cup {u} |->
                                IF k = u
                                THEN [content |-> response'[r].body, timestamp |-> now]
                                ELSE contentCache[k]]
                ELSE \A k \in DOMAIN contentCache' : ~EntryWritten(k)
       /\ \A k \in DOMAIN contentCache' :
            EntryWritten(k) =>
                \E r \in Requests :
                    /\ Returns(r) /\ handler[r].targetUrl = k
                    /\ response'[r].xcache = "MISS"]_vars

\* two overlapping fetches of one URL: the later write replaced the earlier
\* one's entry, while a failed fetch of it would have left it alone
C19_Witness ==
    \E r1, r2 \in Requests :
        /\ response[r1].xcache = "MISS" /\ response[r2].xcache = "MISS"
        /\ handler[r1].targetUrl = handler[r2].targetUrl
        /\ response[r1].body # response[r2].body
        /\ handler[r1].wrote < handler[r2].wrote
        /\ contentCache[handler[r2].targetUrl] =
             [content |-> response[r2].body, timestamp |-> handler[r2].wrote]

-----------------------------------------------------------------------------
(* Properties of the upstream client *)

Ceil(n, d) == (n + d - 1) \div d

RECURSIVE Flatten(_)
Flatten(seqs) == IF seqs = <<>> THEN <<>> ELSE Head(seqs) \o Flatten(Tail(seqs))

(* C20 as stated: a call that has ended has issued exactly ceil(n/100)      *)
(* requests.                                                                *)
C20_Original ==
    clientPc \in {"returned", "thrown"} => Len(requests) = Ceil(Len(steamIds), 100)

(* C20 amended: for n ids the call issues at most ceil(n/100) requests,     *)
(* none for n = 0, each only after the answer to the one before, and        *)
(* exactly ceil(n/100) when it returns; the requests carry consecutive      *)
(* slices of the input, 100 ids in each but the last, and the call returns  *)
(* the received player lists concatenated in request order.                 *)
C20_ChunkedBatches ==
    LET n == Len(steamIds)
        total == Ceil(n, 100)
        asked == Flatten(requests)
    IN  /\ Len(requests) <= total
        /\ asked = SubSeq(steamIds, 1, Len(asked))
        /\ \A i \in DOMAIN requests :
              /\ Len(requests[i]) = IF i < total THEN 100 ELSE n - 100 * (total - 1)
              /\ Len(requests[i]) \in 1..100
        /\ Len(requests) = Len(received) + IF clientPc \in {"awaiting", "thrown"} THEN 1 ELSE 0
        /\ clientPc = "returned" =>
              /\ Len(requests) = total
              /\ asked = steamIds
              /\ returned = Flatten(received)
        /\ n = 0 => requests = <<>> /\ clientPc \in {"called", "returned"}

\* 201 ids: three requests of 100, 100 and 1 ids, answered differently
C20_Witness ==
    /\ clientPc = "returned"
    /\ Len(steamIds) = 201
    /\ Len(requests) = 3 /\ Len(requests[3]) = 1
    /\ Len(received[1]) = 100 /\ Len(received[2]) = 99 /\ Len(received[3]) = 1
    /\ Len(returned) = 200

-----------------------------------------------------------------------------
(* getReviewsWithPlayerData: the status flag, the enrichment and its frame *)

\* the profile records the player responses of the call hold for an id
ProfileRecords(id) ==
    LET all == Flatten(received)
    IN  {all[k] : k \in {n \in DOMAIN all : all[n].steamid = id}}

(* C21: when the listing request is answered, getGameReviews rejects if the *)
(* body's status flag is not 1 and otherwise resolves to the body as read;  *)
(* whenever it rejects, getReviewsWithPlayerData has rejected too and no    *)
(* player-profile request has been issued.                                  *)
C21_StatusFlagIsFatal ==
    /\ gameReviews.transport = "ok" =>
          IF gameReviews.body.success = 1
          THEN gameReviews.state = "fulfilled" /\ gameReviews.value = gameReviews.body
          ELSE gameReviews.state = "rejected"
    /\ gameReviews.state = "rejected" =>
          /\ enrichPc = "thrown"
          /\ clientPc = "idle"
          /\ requests = <<>>

\* a listing of three reviews delivered with status flag 2 was refused
C21_Witness ==
    /\ gameReviews.transport = "ok"
    /\ gameReviews.body.success = 2
    /\ Len(gameReviews.body.reviews) = MaxPageReviews
    /\ enrichPc = "thrown"

(* C23: in the returned page a review whose author id has no profile record *)
(* in the player responses carries personaname "Unknown", profileurl "#"    *)
(* and empty avatar, avatarmedium and avatarfull; a review whose author id  *)
(* has a record carries that record's five fields; and the call throws only *)
(* if getGameReviews or getPlayerSummaries threw.                           *)
C23_MissingProfileDefaults ==
    /\ enrichPc = "returned" =>
          \A i \in DOMAIN enriched.reviews :
              LET author == enriched.reviews[i].author
                  records == ProfileRecords(gameReviews.body.reviews[i].author.steamid)
              IN  IF records = {}
                  THEN /\ author.personaname = "Unknown"
                       /\ author.profileurl = "#"
                       /\ author.avatar = ""
                       /\ author.avatarmedium = ""
                       /\ author.avatarfull = ""
                  ELSE \A p \in records :
                       /\ author.personaname = p.personaname
                       /\ author.profileurl = p.profileurl
                       /\ author.avatar = p.avatar
                       /\ author.avatarmedium = p.avatarmedium
                       /\ author.avatarfull = p.avatarfull
    /\ enrichPc = "thrown" => gameReviews.state = "rejected" \/ clientPc = "thrown"
    /\ clientPc = "returned" => ENABLED Enrich \/ enrichPc = "returned"

\* the first author has no record and the second one's record has an empty
\* display name
C23_Witness ==
    /\ enrichPc = "returned"
    /\ \E i, j \in DOMAIN enriched.reviews :
          /\ ProfileRecords(enriched.reviews[i].author.steamid) = {}
          /\ enriched.reviews[i].author.personaname = "Unknown"
          /\ ProfileRecords(enriched.reviews[j].author.steamid) # {}
          /\ enriched.reviews[j].author.personaname = ""

(* C24: the returned page has the cursor, query summary and status flag of  *)
(* the listing; its review list has the listing's length and order, every   *)
(* review keeps its fields other than author and every author keeps its     *)
(* fields other than the five enriched ones; and the profile requests of    *)
(* the call name only author ids of the listing, each id at most once.      *)
C24_FrameOfEnrichment ==
    LET listing == gameReviews.body
        asked == Flatten(requests)
    IN  /\ enrichPc = "returned" =>
              /\ enriched.cursor = listing.cursor
              /\ enriched.query_summary = listing.query_summary
              /\ enriched.success = listing.success
              /\ DOMAIN enriched = DOMAIN listing
              /\ Len(enriched.reviews) = Len(listing.reviews)
              /\ \A i \in DOMAIN listing.reviews :
                    LET old == listing.reviews[i]
                        new == enriched.reviews[i]
                    IN  /\ DOMAIN new = DOMAIN old
                        /\ \A f \in DOMAIN old \ {"author"} : new[f] = old[f]
                        /\ DOMAIN new.author =
                              DOMAIN old.author \cup {"personaname", "profileurl", "avatar",
                                                      "avatarmedium", "avatarfull"}
                        /\ \A f \in DOMAIN old.author : new.author[f] = old.author[f]
        /\ \A k \in DOMAIN asked :
              /\ \E i \in DOMAIN listing.reviews : listing.reviews[i].author.steamid = asked[k]
              /\ \A n \in DOMAIN asked : asked[n] = asked[k] => n = k

\* a full listing by two authors, one of them twice: two ids were asked for
C24_Witness ==
    /\ enrichPc = "returned"
    /\ Len(enriched.reviews) = MaxPageReviews
    /\ Len(Flatten(requests)) = 2
    /\ enriched.cursor = "c1"

-----------------------------------------------------------------------------
(* The review-listing route: the upstream query and the cache key *)

\* the value a query string supplies for key k, or the default
Supplied(query, k, default) == IF k \in DOMAIN query THEN query[k] ELSE default

(* C22: the upstream URL built for a request that passed validation and     *)
(* missed the cache carries filter, language, day_range, review_type,       *)
(* purchase_type and num_per_page, each with the supplied value or else     *)
(* with recent, all, 0, all, all, 20; it carries cursor exactly when a      *)
(* non-empty cursor was supplied, with the supplied value.                  *)
C22_UpstreamQuery ==
    \A r \in Requests :
        reviewHandler[r].fetches > 0 =>
            LET query == reviewHandler[r].query
                url == reviewHandler[r].steamUrl
            IN  /\ {"filter", "language", "day_range", "review_type", "purchase_type",
                    "num_per_page"} \subseteq DOMAIN url
                /\ url.filter = Supplied(query, "filter", "recent")
                /\ url.language = Supplied(query, "language", "all")
                /\ url.day_range = Supplied(query, "day_range", "0")
                /\ url.review_type = Supplied(query, "review_type", "all")
                /\ url.purchase_type = Supplied(query, "purchase_type", "all")
                /\ url.num_per_page = Supplied(query, "num_per_page", "20")
                /\ "cursor" \in DOMAIN url <=> ("cursor" \in DOMAIN query /\ query.cursor # "")
                /\ "cursor" \in DOMAIN url => url.cursor = query.cursor

\* one request supplied every option, the other an empty filter and an
\* empty cursor; both went upstream
C22_Witness ==
    \E r1, r2 \in Requests :
        /\ reviewHandler[r1].fetches > 0 /\ reviewHandler[r2].fetches > 0
        /\ "cursor" \in DOMAIN reviewHandler[r1].steamUrl
        /\ reviewHandler[r1].steamUrl.num_per_page = "50"
        /\ "cursor" \in DOMAIN reviewHandler[r2].query
        /\ reviewHandler[r2].query.filter = ""
        /\ reviewHandler[r2].steamUrl.day_range = "0"

\* the eight parameters of the composite key
KeyParameters == {"appId", "filter", "language", "day_range", "cursor", "review_type",
                  "purchase_type", "num_per_page"}

\* two validated requests agree on a parameter when both lack it or both
\* carry the same value
Agree(p, q) ==
    \A k \in KeyParameters :
        /\ k \in DOMAIN p <=> k \in DOMAIN q
        /\ k \in DOMAIN p => p[k] = q[k]

(* C25 as stated: when a request is answered from the cache entry another   *)
(* request wrote, the two agree on all eight key parameters.                *)
C25_CompositeKey ==
    \A r1, r2 \in Requests :
        (/\ reviewHandler[r1].wrote >= 0
         /\ reviewHandler[r2].served = "cache"
         /\ reviewHandler[r1].cacheKey = reviewHandler[r2].cacheKey)
            => Agree(ValidatedData(reviewHandler[r1].query),
                     ValidatedData(reviewHandler[r2].query))

-----------------------------------------------------------------------------
(* No retries *)

(* C26: a call of the review-listing or player-profile route makes at most  *)
(* one upstream request and a call of the gateway enters its fetch at most  *)
(* once; the requests of a getPlayerSummaries call are its chunks in order, *)
(* each once; an aggregation run requests each page of each reviewer at     *)
(* most once; and a failure is reported once: a response, once returned,    *)
(* never changes, a rejected getPlayerSummaries call stays rejected, and no *)
(* reviewer task reports twice.                                             *)
C26_NoRetries ==
    /\ [](/\ \A r \in Requests :
                reviewHandler[r].fetches <= 1 /\ playerHandler[r].fetches <= 1
          /\ Len(requests) <= Len(chunks)
          /\ \A i \in DOMAIN requests : requests[i] = chunks[i]
          /\ \A a \in Authors :
                /\ reported[a] <= 1
                /\ \A p \in Pages : fetchCount[a][p] <= 1)
    /\ [][/\ \A r \in Requests :
                /\ handler'[r].pc = "fetching" => handler[r].pc \in {"idle", "fetching"}
                /\ handler[r].pc = "done" =>
                      handler'[r].pc = "done" /\ response'[r] = response[r]
                /\ reviewHandler[r].pc = "done" =>
                      reviewHandler'[r].pc = "done" /\ reviewResponse'[r] = reviewResponse[r]
                /\ playerHandler[r].pc = "done" =>
                      playerHandler'[r].pc = "done" /\ playerResponse'[r] = playerResponse[r]
          /\ clientPc = "thrown" => clientPc' = "thrown" /\ requests' = requests
          /\ \A a \in Authors, p \in Pages :
                page[a][p] = "failed" => page'[a][p] = "failed"]_vars

\* a run in which the page-2 request of a reviewer failed: it was issued
\* once and the task reported once
C26_Witness ==
    /\ Resolved
    /\ \E a \in Authors :
          /\ page[a][2] = "failed"
          /\ fetchCount[a][1] = 1 /\ fetchCount[a][2] = 1
          /\ reported[a] = 1

-----------------------------------------------------------------------------
(* The gateway: two overlapping requests for one URL *)

\* requests r1 and r2 both missed the cache for one URL, r2 arriving before
\* r1 wrote, and both returned the page
Raced(r1, r2) ==
    /\ r1 < r2
    /\ handler[r1].pc = "done" /\ handler[r2].pc = "done"
    /\ handler[r1].targetUrl = handler[r2].targetUrl
    /\ response[r1].status = 200 /\ response[r1].xcache = "MISS"
    /\ response[r2].status = 200 /\ response[r2].xcache = "MISS"
    /\ handler[r2].at <= handler[r1].wrote

(* C27: when two requests for one URL overlapped after missing the cache,   *)
(* both called out and both wrote; each returned the body its own fetch     *)
(* read; and, unless a further request for the URL arrived, the entry of    *)
(* the URL is a whole entry holding the body and time of the later write    *)
(* (of either write when both happened at the same time).                   *)
C27_BenignRace ==
    \A r1, r2 \in Requests :
        Raced(r1, r2) =>
            LET u == handler[r1].targetUrl
                entry(r) == [content |-> handler[r].html, timestamp |-> handler[r].wrote]
            IN  /\ handler[r1].calledOut /\ handler[r2].calledOut
                /\ handler[r1].wrote >= 0 /\ handler[r2].wrote >= 0
                /\ response[r1].body = handler[r1].html
                /\ response[r2].body = handler[r2].html
                /\ (\A r \in Requests \ {r1, r2} :
                        handler[r].pc = "idle" \/ handler[r].targetUrl # u)
                      => /\ u \in DOMAIN contentCache
                         /\ handler[r1].wrote < handler[r2].wrote => contentCache[u] = entry(r2)
                         /\ handler[r2].wrote < handler[r1].wrote => contentCache[u] = entry(r1)
                         /\ contentCache[u] \in {entry(r1), entry(r2)}

\* the request that arrived first wrote last: the entry holds its body
C27_Witness ==
    \E r1, r2 \in Requests :
        /\ Raced(r1, r2)
        /\ handler[r1].html # handler[r2].html
        /\ handler[r2].wrote < handler[r1].wrote
        /\ contentCache[handler[r1].targetUrl].content = handler[r1].html

-----------------------------------------------------------------------------
(* The aggregator: the key order of the result *)

\* the position of the first positive seed review of author a
FirstPositive(a) ==
    LET idx == {i \in DOMAIN initialReviews :
                    initialReviews[i].voted_up /\ initialReviews[i].author.steamid = a}
    IN  CHOOSE i \in idx : \A j \in idx : i <= j

(* C28 as stated: the keys are in the order in which the tasks complete, so *)
(* the key of a task that has not completed never precedes the key of one   *)
(* that has.                                                                *)
C28_Original ==
    \A i, j \in DOMAIN keyOrder :
        i < j => ~(task[keyOrder[i]] = "pending" /\ task[keyOrder[j]] = "fulfilled")

(* C28: the keys of the result mapping are in the order in which their      *)
(* reviewers first appear among the positive seed reviews, whatever the     *)
(* order in which the fetches and the tasks complete; the returned mapping  *)
(* has one key per such reviewer.                                           *)
C28_KeyOrderIsSeedOrder ==
    /\ \A i \in DOMAIN keyOrder : keyOrder[i] \in PositiveIds
    /\ \A i, j \in DOMAIN keyOrder :
          i < j => FirstPositive(keyOrder[i]) < FirstPositive(keyOrder[j])
    /\ Resolved => {keyOrder[i] : i \in DOMAIN keyOrder} = PositiveIds

\* three reviewers: the third has completed after a successful parse while
\* the first is still waiting, and the first key is the first reviewer's
C28_Witness ==
    /\ Len(keyOrder) = 3
    /\ task[keyOrder[1]] = "pending"
    /\ task[keyOrder[3]] = "fulfilled"
    /\ parse[keyOrder[3]].state = "fulfilled"
    /\ FirstPositive(keyOrder[1]) = 1

-----------------------------------------------------------------------------
(* The review hook: the pages one fetchReviews call requests *)

\* the page answering request n was empty
CameBackEmpty(n) == \A j \in DOMAIN collected : collected[j].request # n

(* C29 as stated: without fetchAll a call issues at most max(1, pages)      *)
(* requests; a request after the first carries the cursor the preceding     *)
(* page returned, which is not empty; and no request follows a page that    *)
(* came back with an empty review list.                                     *)
C29_Original ==
    ~FetchAll(hookOptions) =>
        /\ Len(pageRequests) <= Max(1, Option(hookOptions, "pages", 1))
        /\ \A n \in DOMAIN pageRequests :
              n >= 2 => /\ "cursor" \in DOMAIN pageRequests[n]
                        /\ pageRequests[n].cursor # ""
        /\ (hookPc = "next" => pageRequests[Len(pageRequests)].cursor = hookCursor)
        /\ \A n \in DOMAIN pageRequests :
              n < Len(pageRequests) => ~CameBackEmpty(n)

(* C30 as stated: in fetchAll mode at most 100 follow-up requests are made, *)
(* and a follow-up request is issued only while the collected count is      *)
(* below min(limit or 500, 100), the cursor is not empty and no page has    *)
(* come back empty.                                                         *)
C30_Original ==
    FetchAll(hookOptions) =>
        /\ Len(pageRequests) <= 1 + HARD_LIMIT
        /\ (hookPc = "next" =>
              /\ Len(collected) < Min(Option(hookOptions, "limit", DEFAULT_LIMIT), HARD_LIMIT)
              /\ hookCursor # "")
        /\ \A n \in DOMAIN pageRequests :
              n < Len(pageRequests) => ~CameBackEmpty(n)

-----------------------------------------------------------------------------
(* The review hook: failure and success of one fetchReviews call *)

\* the reviews are whole pages in the order of their requests, each page in
\* its own order
InFetchOrder(rs) ==
    /\ rs # <<>> => rs[1].index = 1
    /\ \A j \in DOMAIN rs :
          /\ rs[j].request \in DOMAIN pageRequests
          /\ j + 1 \in DOMAIN rs =>
                \/ rs[j + 1].request = rs[j].request /\ rs[j + 1].index = rs[j].index + 1
                \/ rs[j + 1].request > rs[j].request /\ rs[j + 1].index = 1

(* C31: when a page request of a fetchReviews call fails, the hook sets its *)
(* error once, keeps the reviews it had, issues no further page request and *)
(* sets loading to false; a call that succeeded leaves the error null, has  *)
(* loading false and its reviews are the fetched pages in fetch order; a    *)
(* call that returned changes nothing any more.                             *)
C31_FailureSurfacesOnce ==
    /\ [](/\ hookError # NoHookError => hookPc = "returned" /\ ~hookLoading
          /\ (hookPc = "returned" /\ Truthy(hookAppId) /\ hookError = NoHookError) =>
                /\ ~hookLoading
                /\ hookReviews = collected
                /\ InFetchOrder(hookReviews)
                /\ hookReviews # <<>> => hookReviews[Len(hookReviews)].request <= Len(pageRequests))
    /\ [][/\ (hookError = NoHookError /\ hookError' # NoHookError) =>
                /\ hookPc \in {"first", "next"}
                /\ hookReviews' = hookReviews
                /\ pageRequests' = pageRequests
                /\ hookPc' = "returned"
                /\ ~hookLoading'
          /\ hookPc = "returned" => UNCHANGED hookVars]_vars

\* the third page request failed after two pages had been collected: the
\* previous reviews are still shown
C31_Witness ==
    /\ hookError # NoHookError
    /\ Len(pageRequests) = 3
    /\ Len(collected) >= 2
    /\ hookReviews = PreviousReviews
    /\ hookSummary = SummaryOf(1)

-----------------------------------------------------------------------------
(* The review hook: the app id changes while a call is in flight *)

(* C32 as stated: loading is true whenever a fetchReviews call is in        *)
(* flight, and a step of a call started for another app id than the         *)
(* current one changes none of reviews, summary and error.                  *)
C32_Original ==
    /\ []((\E c \in DOMAIN calls : InFlight(calls[c])) => hookLoading)
    /\ [][\A c \in DOMAIN calls :
              (calls[c].appId # hookAppId /\ calls'[c] # calls[c]) =>
                  UNCHANGED <<hookReviews, hookSummary, hookError>>]_vars

-----------------------------------------------------------------------------
(* The aggregator: a reviewer's retrieval is all or nothing *)

(* C33: once a request of a reviewer's retrieval has failed,                *)
(* parseUserReviews has rejected, whatever the other pages returned; the    *)
(* aggregate of a reviewer whose retrieval rejected, and every aggregate    *)
(* with an error, has an empty review map and no page count; an aggregate   *)
(* with reviews belongs to a retrieval in which every request succeeded.    *)
C33_AllOrNothing ==
    \A a \in Authors :
        /\ Threw(a) => parse[a].state = "rejected"
        /\ a \in DOMAIN reviewers =>
              /\ (parse[a].state = "rejected" \/ reviewers[a].error # Undef) =>
                    /\ reviewers[a].reviews = EmptyMap
                    /\ reviewers[a].totalPages = 0
              /\ HasReviews(a) =>
                    /\ Succeeded(a)
                    /\ parse[a].state = "fulfilled"
                    /\ reviewers[a].error = Undef

\* the run has returned; page 1 of a reviewer listed a qualifying review and
\* another page arrived too, but one page request failed
C33_Witness ==
    /\ Resolved
    /\ \E a \in Authors :
          /\ a \in DOMAIN reviewers
          /\ page[a][1] = "ok"
          /\ \E p, q \in Pages : p >= 2 /\ q >= 2 /\ page[a][p] = "ok" /\ page[a][q] = "failed"
          /\ \E i \in DOMAIN parse[a].reviews :
                KeepReview(parse[a].reviews[i], targetAppId)
          /\ reviewers[a].error # Undef
          /\ reviewers[a].reviews = EmptyMap

-----------------------------------------------------------------------------
(* The aggregator: the result and the completion order *)

\* the pages of reviewer a whose requests failed
FailedPages(a) == {p \in Pages : page[a][p] = "failed"}

\* the failed page with the lowest number
LowestFailed(a) == CHOOSE p \in FailedPages(a) : \A q \in FailedPages(a) : p <= q

\* the aggregate of reviewer a as its seed stub, its feed and the outcomes of
\* its requests determine it, with error message m for a failed retrieval
AggregateOf(a, m) ==
    IF Unusable(FirstPositiveStub(a).profileurl)
    THEN [ExpectedEmpty(a) EXCEPT !.error = "Profile URL not available"]
    ELSE IF Threw(a) THEN [ExpectedEmpty(a) EXCEPT !.error = m]
    ELSE ExpectedAggregate(a)

(* C34 as stated: the aggregate of a reviewer whose task has ended is       *)
(* determined by the seed reviews, the feed and the outcomes of the         *)
(* requests alone; for a failed retrieval the error is then the message of  *)
(* a page the outcomes single out, here the failed page of lowest number.   *)
C34_Original ==
    \A a \in DOMAIN reviewers :
        task[a] = "fulfilled" =>
            reviewers[a] = AggregateOf(a, IF Threw(a) THEN Thrown(LowestFailed(a)).message
                                          ELSE Undef)

(* C34: the aggregate of a reviewer whose task has ended has the review     *)
(* map, the page count and the presence of an error that the seed reviews,  *)
(* the feed and the outcomes of the requests determine, under every         *)
(* completion order; its error message is the message of one of the failed  *)
(* requests, the one that failed first, and so is determined by the         *)
(* outcomes only when a single request failed.                              *)
C34_ContentUpToFirstFailure ==
    \A a \in DOMAIN reviewers :
        task[a] = "fulfilled" =>
            /\ \E m \in {Undef} \cup {Thrown(p).message : p \in FailedPages(a)} :
                  reviewers[a] = AggregateOf(a, m)
            /\ (Threw(a) /\ parse[a].state = "rejected") =>
                  reviewers[a].error = parse[a].error.message
            /\ Cardinality(FailedPages(a)) = 1 =>
                  reviewers[a].error = Thrown(LowestFailed(a)).message

\* pages 2 and 3 of a reviewer both failed after page 1 had listed a
\* qualifying review, and the aggregate carries the message of page 2
C34_Witness ==
    /\ Resolved
    /\ \E a \in DOMAIN reviewers :
          /\ FailedPages(a) = {2, 3}
          /\ reviewers[a].error = Thrown(2).message
          /\ \E i \in DOMAIN parse[a].reviews : KeepReview(parse[a].reviews[i], targetAppId)

-----------------------------------------------------------------------------
(* The player-profile route: the requests it refuses *)

\* the request carries more than 100 ids
Over(query) == "steamids" \in DOMAIN query /\ Len(query.steamids) > MAX_STEAM_IDS

\* the request carries an id that is not a 17-digit string
Malformed(query) ==
    "steamids" \in DOMAIN query /\ \E i \in DOMAIN query.steamids : ~WellFormedId(query.steamids[i])

\* the request carries an id that is not a 17-digit string even with the
\* white space around it removed
MalformedTrimmed(query) ==
    "steamids" \in DOMAIN query
        /\ \E i \in DOMAIN query.steamids : ~WellFormedId(Trim(query.steamids[i]))

\* request r was answered 400 before any upstream call or cache access
RefusedEarly(r) ==
    /\ playerHandler[r].pc = "done"
    /\ playerResponse[r].status = 400
    /\ playerHandler[r].fetches = 0
    /\ playerHandler[r].served = "none"
    /\ playerHandler[r].wrote = -1

\* the requests getPlayerSummaries issues pass the ceiling of the route
ClientWithinCeiling ==
    \A i \in DOMAIN requests : Len(requests[i]) >= 1 /\ ~TooMany(requests[i])

-----------------------------------------------------------------------------
(* The review-listing route: what the cache retains *)

\* request r ended in a failure: timeout, upstream status, thrown error
EndedInFailure(r) == reviewHandler[r].pc = "done" /\ reviewResponse[r].status \in {500, 504}

\* a failed request has written no entry, and an entry is written only by a
\* request that answered 200 with the body it read
OnlyAnswersWritten ==
    \A r \in Requests :
        /\ EndedInFailure(r) => reviewHandler[r].wrote = -1
        /\ reviewHandler[r].wrote >= 0 =>
              /\ reviewResponse[r].status = 200
              /\ reviewHandler[r].served = "upstream"

(* C36 as stated: a request that ends in a failure adds no cache entry, no  *)
(* entry holds a body whose status flag is not 1, and so no request is      *)
(* answered from the cache with such a body.                                *)
C36_Original ==
    /\ OnlyAnswersWritten
    /\ \A k \in DOMAIN reviewCache : IsSuccess(reviewCache[k].data)
    /\ \A r \in Requests :
          reviewHandler[r].served = "cache" => IsSuccess(reviewResponse[r].data)

-----------------------------------------------------------------------------
(* getPlayerSummaries: a failed chunk *)

(* C37: when a chunk request fails or its answer lacks the player list, the *)
(* call rejects: it has returned nothing, not even the profiles of the      *)
(* chunks answered before, the failed request is the last one issued, and   *)
(* nothing changes afterwards; a value is returned only when every chunk    *)
(* was answered with a list.                                                *)
C37_FailureRejectsWhole ==
    /\ [](/\ clientPc = "thrown" =>
                /\ returned = Undef
                /\ Len(requests) = Len(received) + 1
                /\ requests = SubSeq(chunks, 1, Len(requests))
          /\ clientPc # "returned" => returned = Undef
          /\ clientPc = "returned" =>
                /\ Len(received) = Len(requests)
                /\ requests = IF Len(steamIds) = 0 THEN <<>> ELSE chunks)
    /\ [][/\ clientPc = "thrown" => UNCHANGED clientVars
          /\ (clientPc # "thrown" /\ clientPc' = "thrown") =>
                UNCHANGED <<requests, received, allResults, returned>>]_vars

\* the second of three chunk requests failed after the first had brought
\* profiles: the third chunk is never requested
C37_Witness ==
    /\ clientPc = "thrown"
    /\ Len(chunks) = 3
    /\ Len(requests) = 2
    /\ Len(received) = 1 /\ Len(received[1]) = ChunkSize
    /\ allResults # <<>>
    /\ ~ENABLED ClientNext

-----------------------------------------------------------------------------
(* parseReviewPage: the pagination *)

\* the href holds "?p=" followed by a digit
CarriesPage(href) ==
    \E i \in 1..(Len(href) - 3) :
        href[i] = "?" /\ href[i + 1] = "p" /\ href[i + 2] = "=" /\ href[i + 3] \in Digits

\* the number that follows the first "?p=" of the href
PageNumber(href) ==
    LET i == CHOOSE k \in 1..(Len(href) - 3) :
                 /\ href[k] = "?" /\ href[k + 1] = "p" /\ href[k + 2] = "=" /\ href[k + 3] \in Digits
                 /\ \A j \in 1..(k - 1) :
                       ~(href[j] = "?" /\ href[j + 1] = "p" /\ href[j + 2] = "=" /\ href[j + 3] \in Digits)
        n == CHOOSE m \in 1..(Len(href) - i - 2) :
                 /\ \A d \in 1..m : href[i + 2 + d] \in Digits
                 /\ (i + 3 + m <= Len(href) => href[i + 3 + m] \notin Digits)
    IN  IF n = 1 THEN DigitValue(href[i + 3])
        ELSE 10 * DigitValue(href[i + 3]) + DigitValue(href[i + 4])

(* C38: a page with no pagination control parses to currentPage 1 and       *)
(* totalPages 1; with a control, totalPages is 1 when the control has no    *)
(* page link or the last page link has no href or an href without           *)
(* "?p=<number>", and otherwise the number in the last page link's href.    *)
C38_PaginationDefaults ==
    pagination # NoPagination =>
        /\ ~pageHtml.control => pagination = [currentPage |-> 1, totalPages |-> 1]
        /\ pageHtml.control =>
              LET links == pageHtml.links
                  last == links[Len(links)]
              IN  pagination.totalPages =
                      IF links = <<>> THEN 1
                      ELSE IF ~last.hasHref THEN 1
                      ELSE IF ~CarriesPage(last.href) THEN 1
                      ELSE PageNumber(last.href)

\* two page links: the first names page 2, the last page 12 and another
\* parameter; the page is page 2 of 12
C38_Witness ==
    /\ pageHtml.control
    /\ Len(pageHtml.links) = 2
    /\ pageHtml.links[1].href = <<"u", "?", "p", "=", "2">>
    /\ pageHtml.links[2].href = <<"u", "?", "p", "=", "1", "2">>
    /\ pagination = [currentPage |-> 2, totalPages |-> 12]

====
